---- MODULE Spec2Model ----
(***************************************************************************)
(* A model of the WinGet manifest updater (scripts/update_manifest.py,     *)
(* scripts/manifest/updater.py, scripts/yaml_utils.py,                     *)
(* scripts/version_utils.py, scripts/git/pr.py).                           *)
(*                                                                         *)
(* Text.  A Python string is a sequence of tokens.  Every character that   *)
(* is not a letter is a token of its own (each digit, ".", "-", ":", " ",  *)
(* the newline, ...); a maximal run of letters is one token ("InstallerUrl"*)
(* "portable", ...).  The vocabulary holds no word that is a proper suffix *)
(* of another word the code searches for, so substring tests, str.replace  *)
(* and the regular expressions of the code act on token sequences exactly  *)
(* as they act on the characters the tokens spell.                         *)
(***************************************************************************)
EXTENDS Integers, Sequences, FiniteSets, TLC

VARIABLES
  pc,        \* position of the run inside the pipeline that is modelled
  content,   \* the manifest text being patched (update_manifest_content's `content`)
  prev,      \* the value of `content` before the last step reassigned it
  orig,      \* the text read from the template file (the caller's `content`)
  req,       \* the patch request: the arguments of update_manifest_content
  ver,       \* compare_versions: the two arguments and the result
  run        \* the PR orchestrator: main()'s inputs, log of steps and exit code

vars == <<pc, content, prev, orig, req, ver, run>>

\* ------------------------------------------------------------------ characters

Digits == {"0", "1", "2", "3", "4", "5", "6", "7", "8", "9"}

\* letters-only tokens all of whose letters are hexadecimal digits
HexWords == {"A", "B", "C", "D", "E", "F", "AA", "AB", "BB", "CC", "DD", "EE"}

\* the tokens that are not word characters (\w is [A-Za-z0-9_])
NonWord == {" ", "\n", "\r", ":", "-", ".", "#", "'", "|", "/", ">", "{", "}"}

IsSpace(t) == t \in {" ", "\n", "\r"}
IsWord(t) == t \notin NonWord
IsHex(t) == t \in Digits \cup HexWords
IsVerChar(t) == t \in Digits \cup {"."}
IsDateChar(t) == t \in Digits \cup {"-"}

\* ------------------------------------------------------------------ str

Take(s, n) == SubSeq(s, 1, n)
Drop(s, n) == SubSeq(s, n + 1, Len(s))

StartsWith(s, p) == Len(p) <= Len(s) /\ SubSeq(s, 1, Len(p)) = p

\* `p in s`
Contains(s, p) == \E i \in 1..(Len(s) - Len(p) + 1) : SubSeq(s, i, i + Len(p) - 1) = p

\* the least and the greatest of a set of indices, 0 when there is none
Least(I) == IF I = {} THEN 0 ELSE CHOOSE i \in I : \A j \in I : i <= j
Greatest(I) == IF I = {} THEN 0 ELSE CHOOSE i \in I : \A j \in I : j <= i

\* s.find(p) + 1 for a non-empty p
Find(s, p) ==
  Least({i \in 1..(Len(s) - Len(p) + 1) : SubSeq(s, i, i + Len(p) - 1) = p})

\* s.replace('', new): new before every character and at the end
Interleave(s, new) ==
  LET k == Len(new)
  IN  [p \in 1..((Len(s) + 1) * k + Len(s)) |->
         IF (p - 1) % (k + 1) < k THEN new[((p - 1) % (k + 1)) + 1]
         ELSE s[((p - 1) \div (k + 1)) + 1]]

\* s.replace(old, new): leftmost non-overlapping occurrences
RECURSIVE StrReplace(_, _, _)
StrReplace(s, old, new) ==
  IF Len(old) = 0 THEN Interleave(s, new)
  ELSE LET i == Find(s, old)
       IN  IF i = 0 THEN s
           ELSE Take(s, i - 1) \o new \o StrReplace(Drop(s, i + Len(old) - 1), old, new)

\* s.count(p)
RECURSIVE StrCount(_, _)
StrCount(s, p) ==
  IF Len(p) = 0 THEN Len(s) + 1
  ELSE LET i == Find(s, p)
       IN  IF i = 0 THEN 0 ELSE 1 + StrCount(Drop(s, i + Len(p) - 1), p)

\* s.split('\n')
RECURSIVE Split(_)
Split(s) ==
  LET i == Find(s, <<"\n">>)
  IN  IF i = 0 THEN <<s>> ELSE <<Take(s, i - 1)>> \o Split(Drop(s, i))

\* '\n'.join(lines)
RECURSIVE Join(_)
Join(lines) ==
  IF Len(lines) = 0 THEN <<>>
  ELSE IF Len(lines) = 1 THEN lines[1]
  ELSE lines[1] \o <<"\n">> \o Join(Tail(lines))

\* the number of leading tokens of s that satisfy the class
RECURSIVE SpanSpace(_)
SpanSpace(s) == IF Len(s) > 0 /\ IsSpace(s[1]) THEN 1 + SpanSpace(Tail(s)) ELSE 0
RECURSIVE SpanWord(_)
SpanWord(s) == IF Len(s) > 0 /\ IsWord(s[1]) THEN 1 + SpanWord(Tail(s)) ELSE 0
RECURSIVE SpanHex(_)
SpanHex(s) == IF Len(s) > 0 /\ IsHex(s[1]) THEN 1 + SpanHex(Tail(s)) ELSE 0
RECURSIVE SpanVer(_)
SpanVer(s) == IF Len(s) > 0 /\ IsVerChar(s[1]) THEN 1 + SpanVer(Tail(s)) ELSE 0
RECURSIVE SpanDate(_)
SpanDate(s) == IF Len(s) > 0 /\ IsDateChar(s[1]) THEN 1 + SpanDate(Tail(s)) ELSE 0
RECURSIVE SpanNonSpace(_)
SpanNonSpace(s) == IF Len(s) > 0 /\ ~IsSpace(s[1]) THEN 1 + SpanNonSpace(Tail(s)) ELSE 0
RECURSIVE SpanLine(_)
SpanLine(s) == IF Len(s) > 0 /\ s[1] # "\n" THEN 1 + SpanLine(Tail(s)) ELSE 0

LStrip(s) == Drop(s, SpanSpace(s))

RECURSIVE RStrip(_)
RStrip(s) == IF Len(s) > 0 /\ IsSpace(s[Len(s)]) THEN RStrip(Take(s, Len(s) - 1)) ELSE s

\* s.strip()
Strip(s) == RStrip(LStrip(s))

\* s.strip('- ')
RECURSIVE StripDashSpace(_)
StripDashSpace(s) ==
  IF Len(s) > 0 /\ s[1] \in {"-", " "} THEN StripDashSpace(Tail(s))
  ELSE IF Len(s) > 0 /\ s[Len(s)] \in {"-", " "} THEN StripDashSpace(Take(s, Len(s) - 1))
  ELSE s

\* len(line) - len(line.lstrip())
IndentOf(line) == SpanSpace(line)

\* ' ' * n
Spaces(n) == [i \in 1..n |-> " "]

\* re.sub(pattern, repl, s) where repl gives `first` for the first match and
\* `rest` for every later one; m[i] is the length of the pattern's match at
\* index i of s, 0 when it does not match there; the scan goes on after each
\* match
RECURSIVE ReSubFrom(_, _, _, _, _)
ReSubFrom(s, m, from, first, rest) ==
  LET i == Least({k \in from..Len(s) : m[k] > 0})
  IN  IF i = 0 THEN SubSeq(s, from, Len(s))
      ELSE SubSeq(s, from, i - 1) \o first \o ReSubFrom(s, m, i + m[i], rest, rest)

ReSub(s, m, first, rest) == ReSubFrom(s, m, 1, first, rest)

\* re.search(pattern, s) is not None
ReSearch(m) == \E i \in DOMAIN m : m[i] > 0

\* re.sub(r'\n\s*\n\s*\n+', '\n\n', s) and re.sub(r'\n\s*\n\s*\n', '\n\n', s):
\* a whitespace run that starts at a newline and holds three newlines or more
\* is cut down, up to its last newline, to two newlines
\* the length of the blank run at the start of t that the pattern matches
MatchBlankRun(t) ==
  IF Len(t) = 0 \/ t[1] # "\n" THEN 0
  ELSE LET w == SpanSpace(t)
           nls == {k \in 1..w : t[k] = "\n"}
       IN  IF Cardinality(nls) >= 3 THEN CHOOSE k \in nls : \A j \in nls : j <= k ELSE 0

CollapseBlank(s) ==
  ReSub(s, [i \in 1..Len(s) |-> MatchBlankRun(Drop(s, i - 1))], <<"\n", "\n">>, <<"\n", "\n">>)

\* ------------------------------------------------------------------ step 1: version

\* re.search(r'PackageVersion:\s*([\d\.]+)', content): group(1), <<>> when no match
MatchPackageVersion(t) ==
  IF StartsWith(t, <<"PackageVersion", ":">>)
  THEN LET sp == SpanSpace(Drop(t, 2))
           n == SpanVer(Drop(t, 2 + sp))
       IN  IF n > 0 THEN 2 + sp + n ELSE 0
  ELSE 0

OldVersion(s) ==
  LET i == Least({k \in 1..Len(s) : MatchPackageVersion(Drop(s, k - 1)) > 0})
  IN  IF i = 0 THEN <<>>
      ELSE LET t == Drop(s, i - 1)
               sp == SpanSpace(Drop(t, 2))
           IN  SubSeq(t, 3 + sp, MatchPackageVersion(t))

\* v.endswith('.0')
EndsWithDotZero(v) == Len(v) >= 2 /\ SubSeq(v, Len(v) - 1, Len(v)) = <<".", "0">>

\* a replacement that stops after the first occurrence
ReplaceFirstVersion(c, old, new) ==
  LET i == Find(c, old)
  IN  IF i = 0 \/ old = <<>> THEN c ELSE Take(c, i - 1) \o new \o Drop(c, i + Len(old) - 1)

\* content.replace(old_version, version)
ReplaceFullVersion(c, old, new) == StrReplace(c, old, new)

\* the short-form replacement: old_version[:-2] by version[:-2]
ReplaceShortVersion(c, old, new) ==
  IF EndsWithDotZero(old) /\ EndsWithDotZero(new)
  THEN LET old_short == Take(old, Len(old) - 2)
           new_short == Take(new, Len(new) - 2)
       IN  IF StrCount(c, old_short) > 0 THEN StrReplace(c, old_short, new_short) ELSE c
  ELSE c

VersionSubst(c, version) ==
  LET old_version == OldVersion(c)
  IN  IF old_version # <<>> /\ old_version # version
      THEN ReplaceShortVersion(ReplaceFullVersion(c, old_version, version), old_version, version)
      ELSE c

\* ------------------------------------------------------------------ steps 2, 3: URL, hash

\* re.match(r'^\s*-\s*Architecture:\s*(\w+)', line): group(1), <<>> when no match
ArchOfLine(line) ==
  LET a == LStrip(line)
  IN  IF Len(a) = 0 \/ a[1] # "-" THEN <<>>
      ELSE LET b == LStrip(Tail(a))
           IN  IF ~StartsWith(b, <<"Architecture", ":">>) THEN <<>>
               ELSE LET c == LStrip(Drop(b, 2)) IN Take(c, SpanWord(c))

\* the loop over the lines shared by the URL and the hash update: `field` is
\* 'InstallerUrl:' or 'InstallerSha256:', `dict` maps architectures to values
RECURSIVE ScanArchField(_, _, _, _, _, _)
ScanArchField(lines, i, field, dict, current_arch, updated_archs) ==
  IF i > Len(lines) THEN <<>>
  ELSE LET line == lines[i]
           m == ArchOfLine(line)
           arch == IF m # <<>> THEN m ELSE current_arch
           hit == Contains(line, field) /\ arch # <<>> /\ arch \in DOMAIN dict
       IN  IF hit /\ arch \in updated_archs
           THEN ScanArchField(lines, i + 1, field, dict, arch, updated_archs)
           ELSE IF hit
           THEN <<Spaces(IndentOf(line)) \o field \o <<" ">> \o dict[arch]>>
                \o ScanArchField(lines, i + 1, field, dict, arch, updated_archs \cup {arch})
           ELSE <<line>> \o ScanArchField(lines, i + 1, field, dict, arch, updated_archs)

InstallerUrlKey == <<"InstallerUrl", ":">>
InstallerSha256Key == <<"InstallerSha", "2", "5", "6", ":">>
SignatureSha256Key == <<"SignatureSha", "2", "5", "6", ":">>

\* a URL update that keeps no record of the architectures it has rewritten
RewriteEveryUrl(c, installer_urls) ==
  LET lines == Split(c)
      arch(i) == LET above == {j \in 1..i : ArchOfLine(lines[j]) # <<>>}
                 IN  IF above = {} THEN <<>>
                     ELSE ArchOfLine(lines[CHOOSE j \in above : \A k \in above : k <= j])
  IN  Join([i \in 1..Len(lines) |->
              IF Contains(lines[i], InstallerUrlKey) /\ arch(i) \in DOMAIN installer_urls
              THEN Spaces(IndentOf(lines[i])) \o InstallerUrlKey \o <<" ">>
                   \o installer_urls[arch(i)]
              ELSE lines[i]])

UpdateMultiArchUrls(c, installer_urls) ==
  CollapseBlank(Join(ScanArchField(Split(c), 1, InstallerUrlKey, installer_urls, <<>>, {})))

UpdateMultiArchHashes(c, arch_hashes) ==
  CollapseBlank(Join(ScanArchField(Split(c), 1, InstallerSha256Key, arch_hashes, <<>>, {})))

\* r'InstallerUrl:\s*https?://[^\s]+'
MatchInstallerUrl(s) ==
  IF ~StartsWith(s, InstallerUrlKey) THEN 0
  ELSE LET sp == SpanSpace(Drop(s, 2))
           r == Drop(s, 2 + sp)
       IN  IF Len(r) >= 5 /\ r[1] \in {"http", "https"} /\ SubSeq(r, 2, 4) = <<":", "/", "/">>
              /\ ~IsSpace(r[5])
           THEN 2 + sp + 4 + SpanNonSpace(Drop(r, 4))
           ELSE 0

\* r'<key>\s*[A-Fa-f0-9]+' for key 'InstallerSha256:' or 'SignatureSha256:'
MatchHexField(s, key) ==
  IF ~StartsWith(s, key) THEN 0
  ELSE LET sp == SpanSpace(Drop(s, Len(key)))
           n == SpanHex(Drop(s, Len(key) + sp))
       IN  IF n > 0 THEN Len(key) + sp + n ELSE 0


UrlStep(c, r) ==
  IF DOMAIN r.installer_urls # {} THEN UpdateMultiArchUrls(c, r.installer_urls)
  ELSE IF r.installer_url # <<>>
  THEN LET repl == InstallerUrlKey \o <<" ">> \o r.installer_url
       IN  ReSub(c, [i \in 1..Len(c) |-> MatchInstallerUrl(Drop(c, i - 1))], repl, repl)
  ELSE c

HashStep(c, r) ==
  IF DOMAIN r.arch_hashes # {} THEN UpdateMultiArchHashes(c, r.arch_hashes)
  ELSE IF r.sha256 # <<>>
  THEN LET repl == InstallerSha256Key \o <<" ">> \o r.sha256
       IN  ReSub(c, [i \in 1..Len(c) |-> MatchHexField(Drop(c, i - 1), InstallerSha256Key)], repl, repl)
  ELSE c

SignatureStep(c, r) ==
  IF r.signature_sha256 # <<>>
  THEN LET repl == SignatureSha256Key \o <<" ">> \o r.signature_sha256
       IN  ReSub(c, [i \in 1..Len(c) |-> MatchHexField(Drop(c, i - 1), SignatureSha256Key)], repl, repl)
  ELSE c

\* ------------------------------------------------------------------ step 4: ProductCode

ProductCodeKey == <<"ProductCode", ":">>
DefaultKey == <<"default">>

\* "ProductCode: '<code>'", with the list dash in AppsAndFeaturesEntries
ProductCodeLine(indent, dash, code) ==
  Spaces(indent) \o (IF dash THEN <<"-", " ">> ELSE <<>>) \o ProductCodeKey
  \o <<" ", "'">> \o code \o <<"'">>

\* the loop of the ProductCode update; st is the scanner's state
\* [arch, apps, inst, done]: current_arch, in_apps_features,
\* in_installers_section, updated_contexts
RECURSIVE ScanProductCode(_, _, _, _)
ScanProductCode(lines, i, codes, st) ==
  IF i > Len(lines) THEN <<>>
  ELSE LET line == lines[i]
           isInst == Contains(line, <<"Installers", ":">>) /\ Strip(line) = <<"Installers", ":">>
           inst1 == st.inst \/ isInst
           apps1 == st.apps /\ ~isInst
           m == ArchOfLine(line)
           arch1 == IF inst1 /\ m # <<>> THEN m ELSE st.arch
           isApps == Contains(line, <<"AppsAndFeaturesEntries", ":">>)
           topLevel == Len(line) > 0 /\ line[1] # " " /\ line[1] # "-"
                       /\ ~StartsWith(Strip(line), <<"#">>)
           apps == IF isApps THEN TRUE ELSE IF topLevel THEN FALSE ELSE apps1
           inst == IF isApps THEN FALSE ELSE IF topLevel THEN FALSE ELSE inst1
           arch == IF isApps THEN <<>> ELSE arch1
           s1 == [st EXCEPT !.arch = arch, !.apps = apps, !.inst = inst]
           indent == IndentOf(line)
           hasDefault == DefaultKey \in DOMAIN codes
           hasArch == arch # <<>> /\ arch \in DOMAIN codes
           ctx == IF apps /\ hasDefault THEN <<"apps_features">>
                  ELSE IF inst /\ hasArch THEN <<"installer">> \o arch
                  ELSE IF ~apps /\ ~inst /\ hasDefault THEN <<"top_level">>
                  ELSE IF hasArch THEN <<"fallback">> \o arch
                  ELSE <<>>
           code == IF ctx[1] \in {"apps_features", "top_level"} THEN codes[DefaultKey]
                   ELSE codes[arch]
       IN  IF ~Contains(line, ProductCodeKey) \/ ctx = <<>>
           THEN <<line>> \o ScanProductCode(lines, i + 1, codes, s1)
           ELSE IF ctx \in st.done
           THEN ScanProductCode(lines, i + 1, codes, s1)
           ELSE <<ProductCodeLine(indent, ctx = <<"apps_features">>, code)>>
                \o ScanProductCode(lines, i + 1, codes,
                                   [s1 EXCEPT !.done = st.done \cup {ctx}])

UpdateProductCodes(c, product_codes) ==
  Join(ScanProductCode(Split(c), 1, product_codes,
                       [arch |-> <<>>, apps |-> FALSE, inst |-> FALSE, done |-> {}]))

ProductCodeStep(c, r) ==
  IF DOMAIN r.product_codes # {} THEN UpdateProductCodes(c, r.product_codes) ELSE c

\* ------------------------------------------------------------------ step 5: ReleaseDate

ReleaseDateKey == <<"ReleaseDate", ":">>

\* r'ReleaseDate:\s*[\d-]+'
MatchReleaseDate(s) ==
  IF ~StartsWith(s, ReleaseDateKey) THEN 0
  ELSE LET sp == SpanSpace(Drop(s, 2))
           n == SpanDate(Drop(s, 2 + sp))
       IN  IF n > 0 THEN 2 + sp + n ELSE 0

ReleaseDateStep(c, r) ==
  IF ReSearch([i \in 1..Len(c) |-> MatchReleaseDate(Drop(c, i - 1))])
  THEN CollapseBlank(ReSub(c, [i \in 1..Len(c) |-> MatchReleaseDate(Drop(c, i - 1))], ReleaseDateKey \o <<" ">> \o r.today, <<>>))
  ELSE c

\* ------------------------------------------------------------------ step 6: ReleaseNotes

ReleaseNotesKey == <<"ReleaseNotes", ":">>
ReleaseNotesUrlKey == <<"ReleaseNotesUrl", ":">>

\* release_notes.replace('\r\n', '\n').replace('\r', '\n')
NormalizeNewlines(notes) == StrReplace(StrReplace(notes, <<"\r", "\n">>, <<"\n">>), <<"\r">>, <<"\n">>)

\* 'ReleaseNotes: |-\n  ' + yaml_notes.replace('\n', '\n  ')
NotesBlock(yaml_notes) ==
  ReleaseNotesKey \o <<" ", "|", "-", "\n", " ", " ">>
  \o StrReplace(yaml_notes, <<"\n">>, <<"\n", " ", " ">>)

\* r'(?:.*\n)*?(?=\w+:)': the tokens the lazy line loop consumes before the
\* lookahead holds, -1 when it never holds
RECURSIVE LazyLines(_)
LazyLines(s) ==
  LET w == SpanWord(s)
  IN  IF w > 0 /\ Len(s) > w /\ s[w + 1] = ":" THEN 0
      ELSE LET n == SpanLine(s)
           IN  IF n < Len(s)
               THEN LET k == LazyLines(Drop(s, n + 1))
                    IN  IF k < 0 THEN -1 ELSE n + 1 + k
               ELSE -1

\* r'ReleaseNotes:\s*\|-'
MatchNotesBlockHead(s) ==
  IF ~StartsWith(s, ReleaseNotesKey) THEN 0
  ELSE LET sp == SpanSpace(Drop(s, 2))
       IN  IF StartsWith(Drop(s, 2 + sp), <<"|", "-">>) THEN 2 + sp + 2 ELSE 0

\* r'ReleaseNotes:\s*\|-\n(?:.*\n)*?(?=\w+:)'
MatchNotesBlock(s) ==
  LET h == MatchNotesBlockHead(s)
  IN  IF h = 0 \/ Len(s) <= h \/ s[h + 1] # "\n" THEN 0
      ELSE LET k == LazyLines(Drop(s, h + 1))
           IN  IF k < 0 THEN 0 ELSE h + 1 + k

\* r'(ReleaseNotes:).*'
MatchNotesLine(s) ==
  IF ~StartsWith(s, ReleaseNotesKey) THEN 0 ELSE 2 + SpanLine(Drop(s, 2))

\* r'ReleaseNotesUrl:.*'
MatchNotesUrlLine(s) ==
  IF ~StartsWith(s, ReleaseNotesUrlKey) THEN 0 ELSE 2 + SpanLine(Drop(s, 2))

UpdateReleaseNotes(c, release_notes) ==
  LET yaml_notes == NormalizeNewlines(release_notes)
  IN  IF ReSearch([i \in 1..Len(c) |-> MatchNotesBlockHead(Drop(c, i - 1))])
      THEN CollapseBlank(ReSub(c, [i \in 1..Len(c) |-> MatchNotesBlock(Drop(c, i - 1))], NotesBlock(yaml_notes) \o <<"\n">>, <<>>))
      ELSE CollapseBlank(ReSub(c, [i \in 1..Len(c) |-> MatchNotesLine(Drop(c, i - 1))], NotesBlock(yaml_notes), <<>>))

ReleaseNotesStep(c, r) ==
  IF r.release_notes # <<>> /\ Contains(c, ReleaseNotesKey)
  THEN UpdateReleaseNotes(c, r.release_notes)
  ELSE c

UpdateReleaseNotesUrl(c, release_notes_url) ==
  CollapseBlank(ReSub(c, [i \in 1..Len(c) |-> MatchNotesUrlLine(Drop(c, i - 1))], ReleaseNotesUrlKey \o <<" ">> \o release_notes_url, <<>>))

ReleaseNotesUrlStep(c, r) ==
  IF r.release_notes_url # <<>> /\ Contains(c, ReleaseNotesUrlKey)
  THEN UpdateReleaseNotesUrl(c, r.release_notes_url)
  ELSE c

\* ------------------------------------------------------------------ step 7: cleanup

\* stripped.split(':', 1)[0] and stripped.split(':', 1)[1], for ':' in stripped
BeforeColon(s) == Take(s, CHOOSE k \in 0..(Len(s) - 1) : s[k + 1] = ":" /\ \A j \in 1..k : s[j] # ":")
AfterColon(s) == Drop(s, Len(BeforeColon(s)) + 1)

\* the context key of a field line: arch_block:<idx>:<arch>, list_item:<indent>:<line>,
\* section:<name>:<indent> or top:<indent>
ContextKey(st, is_list_start, indent, line_idx) ==
  IF st.arch # <<>> /\ st.inlist THEN <<"arch_block", st.idx, st.arch, 0>>
  ELSE IF is_list_start THEN <<"list_item", indent, <<>>, line_idx>>
  ELSE IF st.section # <<>> THEN <<"section", indent, st.section, 0>>
  ELSE <<"top", indent, <<>>, 0>>

\* the loop of remove_duplicate_fields; st is [arch, section, idx, inlist, seen]:
\* current_arch, current_section, current_list_item_idx, in_installer_list and
\* field_tracker (the pairs <<context key, field name>> met so far)
RECURSIVE ScanDuplicates(_, _, _)
ScanDuplicates(lines, i, st) ==
  IF i > Len(lines) THEN <<>>
  ELSE LET line == lines[i]
           stripped == Strip(line)
           indent == IndentOf(line)
           field_name == StripDashSpace(BeforeColon(stripped))
           is_list_start == StartsWith(stripped, <<"-", " ">>)
           exits == indent = 0 /\ ~is_list_start
           s1 == IF exits
                 THEN [st EXCEPT !.inlist = FALSE, !.arch = <<>>,
                                 !.section = field_name, !.idx = 0]
                 ELSE st
           context_key == ContextKey(s1, is_list_start, indent, i)
       IN  IF stripped = <<>> \/ stripped[1] = "#"
           THEN <<line>> \o ScanDuplicates(lines, i + 1, st)
           ELSE IF stripped = <<"Installers", ":">>
           THEN <<line>> \o ScanDuplicates(lines, i + 1, [st EXCEPT !.inlist = TRUE, !.idx = 0])
           ELSE IF ~Contains(stripped, <<":">>)
           THEN <<line>> \o ScanDuplicates(lines, i + 1, st)
           ELSE IF st.inlist /\ is_list_start /\ field_name = <<"Architecture">>
           THEN LET arch == Strip(AfterColon(stripped))
                    key == <<"arch_block", st.idx + 1, arch, 0>>
                IN  <<line>> \o ScanDuplicates(lines, i + 1,
                      [st EXCEPT !.idx = st.idx + 1, !.arch = arch,
                                 !.seen = {p \in st.seen : p[1] # key}])
           ELSE IF is_list_start /\ field_name = <<"Architecture">>
           THEN <<line>> \o ScanDuplicates(lines, i + 1, s1)
           ELSE IF <<context_key, field_name>> \in s1.seen
           THEN ScanDuplicates(lines, i + 1, s1)
           ELSE <<line>> \o ScanDuplicates(lines, i + 1,
                  [s1 EXCEPT !.seen = s1.seen \cup {<<context_key, field_name>>}])

RemoveDuplicateFields(c) ==
  CollapseBlank(Join(ScanDuplicates(Split(c), 1,
    [arch |-> <<>>, section |-> <<>>, idx |-> 0, inlist |-> FALSE, seen |-> {}])))

\* ------------------------------------------------------------------ update_manifest_content

\* ------------------------------------------------------------------ add_missing_architectures

ArchitectureKey == <<"-", " ", "Architecture", ":">>
ManifestTypeKey == <<"ManifestType", ":">>
NestedInstallerTypeKey == <<"NestedInstallerType", ":">>

\* existing_archs
ExistingArchs(lines) == {ArchOfLine(lines[i]) : i \in 1..Len(lines)} \ {<<>>}

IsManifestTypeLine(line) == StartsWith(Strip(line), ManifestTypeKey)
IsArchitectureLine(line) == StartsWith(Strip(line), ArchitectureKey)

\* last_installer_end for the block that starts at line `start`
BlockEnd(lines, start) ==
  LET Ends(j) == IsArchitectureLine(lines[j]) \/ IsManifestTypeLine(lines[j])
                 \/ (Strip(lines[j]) # <<>> /\ ~StartsWith(lines[j], <<" ">>))
  IN  IF \E j \in (start + 1)..Len(lines) : Ends(j)
      THEN (CHOOSE j \in (start + 1)..Len(lines) :
              Ends(j) /\ \A k \in (start + 1)..(j - 1) : ~Ends(k)) - 1
      ELSE Len(lines)

\* nested_installer_lines: the loop over the last block's lines
RECURSIVE NestedLines(_, _, _, _)
NestedLines(lines, i, last, in_nested) ==
  IF i > last THEN <<>>
  ELSE LET line == lines[i]
       IN  IF Contains(line, NestedInstallerTypeKey)
           THEN <<line>> \o NestedLines(lines, i + 1, last, TRUE)
           ELSE IF in_nested /\ StartsWith(line, <<" ", " ">>)
                   /\ ~StartsWith(line, <<" ", " ">> \o InstallerUrlKey)
                   /\ ~StartsWith(line, <<" ", " ">> \o InstallerSha256Key)
           THEN <<line>> \o NestedLines(lines, i + 1, last, in_nested)
           ELSE IF Contains(line, InstallerUrlKey) \/ Contains(line, InstallerSha256Key)
           THEN NestedLines(lines, i + 1, last, FALSE)
           ELSE NestedLines(lines, i + 1, last, in_nested)

\* the architectures in the order the configuration lists them
ConfigOrder == <<<<"x", "6", "4">>, <<"x", "8", "6">>, <<"arm", "6", "4">>>>

\* sorted(new_archs): Python orders strings by code point; "-" < "." < digits
\* < upper-case letters < "_" < lower-case letters
ArchOrder == <<<<"arm", "6", "4">>, <<"x", "6", "4">>, <<"x", "8", "6">>>>

\* the sections for the architectures of ArchOrder[i..] that are in new_archs
RECURSIVE NewSections(_, _, _, _, _)
NewSections(i, new_archs, nested, arch_hashes, installer_urls) ==
  IF i > Len(ArchOrder) THEN <<>>
  ELSE LET arch == ArchOrder[i]
           rest == NewSections(i + 1, new_archs, nested, arch_hashes, installer_urls)
       IN  IF arch \in new_archs
           THEN <<ArchitectureKey \o <<" ">> \o arch>> \o nested
                \o <<<<" ", " ">> \o InstallerUrlKey \o <<" ">> \o installer_urls[arch],
                     <<" ", " ">> \o InstallerSha256Key \o <<" ">> \o arch_hashes[arch]>>
                \o rest
           ELSE rest

AddMissingArchitectures(c, arch_hashes, installer_urls) ==
  LET lines == Split(c)
      new_archs == DOMAIN arch_hashes \ ExistingArchs(lines)
      mt == Greatest({i \in 1..Len(lines) : IsManifestTypeLine(lines[i])})
      insert_idx == IF mt = 0 THEN Len(lines) ELSE mt - 1
      last_installer_start == Greatest({i \in 1..Len(lines) : IsArchitectureLine(lines[i])})
      last_installer_end == BlockEnd(lines, last_installer_start)
      nested == NestedLines(lines, last_installer_start, last_installer_end, FALSE)
  IN  IF new_archs = {} \/ last_installer_start = 0 THEN c
      ELSE Join(Take(lines, insert_idx)
                \o NewSections(1, new_archs, nested, arch_hashes, installer_urls)
                \o Drop(lines, insert_idx))

\* ------------------------------------------------------------------ inputs

MaxBlocks == 2      \* architecture blocks of an installer manifest
MaxItems == 2       \* items of a NestedInstallerFiles list
MaxNotesLines == 2  \* lines of the release notes handed to the patch

X64 == <<"x", "6", "4">>
X86 == <<"x", "8", "6">>
ARM64 == <<"arm", "6", "4">>

V12 == <<"1", ".", "2">>
V13 == <<"1", ".", "3">>
V121 == <<"1", ".", "2", ".", "1">>
V190 == <<"1", ".", "9", ".", "0">>
V1100 == <<"1", ".", "1", "0", ".", "0">>
Date1 == <<"2", "0", "2", "3", "-", "0", "9", "-", "1", "9">>
Date2 == <<"2", "0", "2", "5", "-", "1", "0", "-", "0", "1">>

NoDict == [a \in {} |-> <<>>]

Fld(indent, key, value) == Spaces(indent) \o key \o <<" ">> \o value
Url(v, name) == <<"https", ":", "/", "/", "u", "/">> \o v \o <<"/">> \o name

\* the hash an architecture block of the template carries, and the one this run computed
OwnHash(a) == IF a = X64 THEN <<"AA">> ELSE IF a = X86 THEN <<"BB">> ELSE <<"CC">>
NewHash(a) == IF a = X64 THEN <<"DD", "1">> ELSE IF a = X86 THEN <<"DD", "2">> ELSE <<"DD", "3">>

RECURSIVE NestedItems(_)
NestedItems(n) ==
  IF n = 0 THEN <<>>
  ELSE NestedItems(n - 1)
       \o <<Fld(2, <<"-", " ", "RelativeFilePath", ":">>, <<"f", ToString(n), ".", "exe">>),
            Fld(4, <<"PortableCommandAlias", ":">>, <<"f", ToString(n)>>)>>

\* one architecture block of an installer manifest; shape.kind is "plain",
\* "dupsha" (a second InstallerSha256 line), "dupurl" (a second InstallerUrl
\* line) or "nested" (NestedInstallerType and shape.items NestedInstallerFiles items)
Block(arch, shape, v) ==
  <<ArchitectureKey \o <<" ">> \o arch>>
  \o (IF shape.kind = "nested"
      THEN <<Fld(2, NestedInstallerTypeKey, <<"portable">>),
             <<" ", " ", "NestedInstallerFiles", ":">>>> \o NestedItems(shape.items)
      ELSE <<>>)
  \o <<Fld(2, InstallerUrlKey, Url(v, arch))>>
  \o (IF shape.kind = "dupurl" THEN <<Fld(2, InstallerUrlKey, Url(v, <<"old">>))>> ELSE <<>>)
  \o <<Fld(2, InstallerSha256Key, OwnHash(arch))>>
  \o (IF shape.kind = "dupsha" THEN <<Fld(2, InstallerSha256Key, <<"EE">>)>> ELSE <<>>)

Shapes ==
  {[kind |-> k, items |-> 0] : k \in {"plain", "dupsha", "dupurl"}}
  \cup {[kind |-> "nested", items |-> n] : n \in 1..MaxItems}

PlainShape == [kind |-> "plain", items |-> 0]

\* the block lists: up to MaxBlocks blocks of architectures x64 and x86 (the
\* same architecture may come twice), one of them of any shape, the others plain
RECURSIVE Blocks(_, _, _, _)
Blocks(archs, special, shape, v) ==
  IF Len(archs) = 0 THEN <<>>
  ELSE Blocks(Take(archs, Len(archs) - 1), special, shape, v)
       \o Block(archs[Len(archs)], IF special = Len(archs) THEN shape ELSE PlainShape, v)

BlockLists(v) ==
  {<<>>} \cup
  UNION {{Blocks(archs, special, shape, v) :
            archs \in [1..n -> {X64, X86}], special \in 1..n, shape \in Shapes} :
         n \in 1..MaxBlocks}

Trailer(type) ==
  <<Fld(0, ManifestTypeKey, <<type>>), Fld(0, <<"ManifestVersion", ":">>, V190), <<>>>>

Header(v) ==
  <<<<"#", " ", "Created", " ", "with", " ", "YamlCreate">>,
    Fld(0, <<"PackageIdentifier", ":">>, <<"Pkg", ".", "App">>),
    Fld(0, <<"PackageVersion", ":">>, v)>>

\* multi-architecture installer manifests, in the layout of
\* scripts/test_multiarch.py; those of version 1.9.0 carry an InstallerUrl line
\* above the installer list
InstallerManifests(v) ==
  {Join(Header(v)
        \o <<Fld(0, <<"InstallerType", ":">>, <<"zip">>), Fld(0, ReleaseDateKey, Date1)>>
        \o (IF v = V190 THEN <<Fld(0, InstallerUrlKey, Url(v, <<"any">>))>> ELSE <<>>)
        \o <<<<"Installers", ":">>>>
        \o blocks \o Trailer("installer")) : blocks \in BlockLists(v)}

\* the versions a run may find upstream for a template of version v
NewVersions(v) == IF v = V12 THEN {V13, V121} ELSE {V1100, V13}

\* the requests of a multi-architecture run (update_manifests, installer_urls given):
\* the hashes of the architectures that downloaded, the URL of every configured one
MultiArchRequests(v) ==
  UNION {{[kind |-> "installer", version |-> nv,
           sha256 |-> NewHash(CHOOSE a \in ks.hashes : TRUE),
           signature_sha256 |-> <<>>, release_notes |-> <<>>, release_notes_url |-> <<>>,
           arch_hashes |-> [a \in ks.hashes |-> NewHash(a)],
           installer_urls |-> [a \in ks.urls |-> Url(nv, a)],
           installer_url |-> Url(nv, <<"any">>),
           product_codes |-> NoDict, today |-> Date2] :
          ks \in {[urls |-> {X64}, hashes |-> {X64}]}
                 \cup {[urls |-> {X64, X86, ARM64}, hashes |-> h] :
                          h \in {{X64}, {X64, X86}, {X64, X86, ARM64}}}} :
         nv \in NewVersions(v)}
  \cup
  \* scripts/test_multiarch.py: hashes only
  {[kind |-> "installer", version |-> V13, sha256 |-> <<>>,
    signature_sha256 |-> <<>>, release_notes |-> <<>>, release_notes_url |-> <<>>,
    arch_hashes |-> [a \in {X64, X86, ARM64} |-> NewHash(a)], installer_urls |-> NoDict,
    installer_url |-> <<>>, product_codes |-> NoDict, today |-> Date2]}
  \cup
  \* a run that finds the template's own version, URLs and hashes again
  {[kind |-> "installer", version |-> v, sha256 |-> OwnHash(X64),
    signature_sha256 |-> <<>>, release_notes |-> <<>>, release_notes_url |-> <<>>,
    arch_hashes |-> [a \in {X64, X86} |-> OwnHash(a)],
    installer_urls |-> [a \in {X64, X86} |-> Url(v, a)],
    installer_url |-> Url(v, X64), product_codes |-> NoDict, today |-> Date2]}

InitInstaller ==
  \E v \in {V12, V190} : \E m \in InstallerManifests(v) : \E r \in MultiArchRequests(v) :
    /\ orig = m
    /\ req = r

\* locale manifests: the ReleaseNotes field is absent ("none"), commented out as
\* YamlCreate leaves it ("comment"), a one-line value ("line"), a "|-" block
\* ("block") or a "|" block ("literal"); ReleaseNotesUrl is a field or commented out
NotesForms == {"none", "comment", "line", "block", "literal"}
UrlForms == {"field", "comment"}

OldNotes(form) ==
  IF form = "none" THEN <<>>
  ELSE IF form = "comment" THEN <<<<"#", " ">> \o ReleaseNotesKey>>
  ELSE IF form = "line" THEN <<Fld(0, ReleaseNotesKey, <<"old", " ", "text">>)>>
  ELSE <<Fld(0, ReleaseNotesKey, IF form = "block" THEN <<"|", "-">> ELSE <<"|">>),
         <<" ", " ", "old", " ", "text">>, <<" ", " ", "-", " ", "more">>>>

OldNotesUrl(form, v) ==
  IF form = "field" THEN <<Fld(0, ReleaseNotesUrlKey, Url(v, <<"notes">>))>>
  ELSE <<<<"#", " ">> \o ReleaseNotesUrlKey>>

LocaleManifests(v) ==
  {Join(Header(v)
        \o <<Fld(0, <<"PackageLocale", ":">>, <<"en">>), Fld(0, <<"Publisher", ":">>, <<"Pub">>)>>
        \o OldNotes(nf) \o OldNotesUrl(uf, v) \o Trailer("defaultLocale")) :
   nf \in NotesForms, uf \in UrlForms}

\* the lines release notes are made of: a 'Word:' prefix, a markdown list item,
\* a blank line, a line with a URL
NotesLinePool ==
  {<<"Fixed", ":", " ", "crash">>, <<"Fixed", ":", " ", "typo">>, <<"-", " ", "item">>, <<>>,
   <<"See", " ", "https", ":", "/", "/", "u", "/", "notes">>}

RECURSIVE JoinWith(_, _)
JoinWith(lines, sep) ==
  IF Len(lines) = 1 THEN lines[1] ELSE lines[1] \o sep \o JoinWith(Tail(lines), sep)

NotesTexts ==
  {<<>>, JoinWith(<<<<"a">>, <<"b">>>>, <<"\r", "\n">>), JoinWith(<<<<"a">>, <<"b">>>>, <<"\r">>)}
  \cup UNION {{JoinWith(ls, <<"\n">>) : ls \in [1..n -> NotesLinePool]} : n \in 1..MaxNotesLines}

LocaleRequests(v) ==
  {[kind |-> "locale", version |-> V13, sha256 |-> NewHash(X64),
    signature_sha256 |-> <<>>, release_notes |-> n,
    release_notes_url |-> IF n = <<>> THEN <<>> ELSE Url(V13, <<"rel">>),
    arch_hashes |-> [a \in {X64} |-> NewHash(a)],
    installer_urls |-> [a \in {X64} |-> Url(V13, a)],
    installer_url |-> Url(V13, X64), product_codes |-> NoDict, today |-> Date2] :
   n \in NotesTexts}

InitLocale ==
  \E m \in LocaleManifests(V12) : \E r \in LocaleRequests(V12) :
    /\ orig = m
    /\ req = r

\* single-installer manifests with the fields of MSI and MSIX packages
Guid(g) == <<"{", g, "}">>

SingleManifests(v) ==
  {Join(Header(v)
        \o (IF top THEN <<Fld(0, ProductCodeKey, <<"'">> \o Guid("G") \o <<"'">>)>> ELSE <<>>)
        \o <<<<"Installers", ":">>, ArchitectureKey \o <<" ">> \o X64,
             Fld(2, InstallerUrlKey, Url(v, <<"app">>)),
             Fld(2, InstallerSha256Key, OwnHash(X64))>>
        \o (IF sig THEN <<Fld(2, SignatureSha256Key, <<"AB">>)>> ELSE <<>>)
        \o (IF apps
            THEN <<<<" ", " ", "AppsAndFeaturesEntries", ":">>,
                   Fld(2, <<"-", " ">> \o ProductCodeKey, <<"'">> \o Guid("G") \o <<"'">>)>>
            ELSE <<>>)
        \o Trailer("installer")) :
   top \in BOOLEAN, sig \in BOOLEAN, apps \in BOOLEAN}

SingleRequests(v) ==
  {[kind |-> "installer", version |-> V13, sha256 |-> NewHash(X64),
    signature_sha256 |-> sg, release_notes |-> <<>>, release_notes_url |-> <<>>,
    arch_hashes |-> NoDict, installer_urls |-> NoDict,
    installer_url |-> Url(V13, <<"app">>), product_codes |-> pcs, today |-> Date2] :
   sg \in {<<>>, <<"EE">>}, pcs \in {NoDict, [k \in {DefaultKey} |-> Guid("H")]}}

InitSingle ==
  \E m \in SingleManifests(V12) : \E r \in SingleRequests(V12) :
    /\ orig = m
    /\ req = r

\* multi-architecture MSI manifests: every architecture block carries its
\* ProductCode; `top` adds one above the installer list, `dup` a second one in
\* the x64 block, and `apps` gives the x64 block its own AppsAndFeaturesEntries
\* section, before or after the block's ProductCode line
AppsAndFeaturesKey == <<"AppsAndFeaturesEntries", ":">>
OldCode(a) == IF a = X64 THEN Guid("GA") ELSE IF a = X86 THEN Guid("GB") ELSE Guid("G")
NewCode(a) == IF a = X64 THEN Guid("HA") ELSE IF a = X86 THEN Guid("HB") ELSE Guid("H")
Quoted(code) == <<"'">> \o code \o <<"'">>

MsiBlock(a, v, dup, apps) ==
  LET entries == <<Spaces(2) \o AppsAndFeaturesKey,
                   Fld(2, <<"-", " ">> \o ProductCodeKey, Quoted(OldCode(a))),
                   Fld(4, <<"DisplayName", ":">>, <<"App">>)>>
  IN  <<ArchitectureKey \o <<" ">> \o a,
        Fld(2, InstallerUrlKey, Url(v, a \o <<".", "msi">>)),
        Fld(2, InstallerSha256Key, OwnHash(a))>>
      \o (IF apps = "before" THEN entries ELSE <<>>)
      \o <<Fld(2, ProductCodeKey, Quoted(OldCode(a)))>>
      \o (IF dup THEN <<Fld(2, ProductCodeKey, Quoted(Guid("G")))>> ELSE <<>>)
      \o (IF apps = "after" THEN entries ELSE <<>>)

MsiManifests(v) ==
  {Join(Header(v)
        \o <<Fld(0, <<"InstallerType", ":">>, <<"msi">>)>>
        \o (IF top THEN <<Fld(0, ProductCodeKey, Quoted(Guid("G")))>> ELSE <<>>)
        \o <<<<"Installers", ":">>>>
        \o MsiBlock(X64, v, dup, apps) \o MsiBlock(X86, v, FALSE, "none")
        \o Trailer("installer")) :
   top \in BOOLEAN, dup \in BOOLEAN, apps \in {"none", "before", "after"}}

\* the requests of an MSI run: a multi-architecture run extracts the
\* ProductCode of every architecture or of some (product_codes[arch]), a
\* single-architecture run the one code (product_codes['default'])
MsiRequests(v) ==
  {[kind |-> "installer", version |-> V13, sha256 |-> NewHash(X64),
    signature_sha256 |-> <<>>, release_notes |-> <<>>, release_notes_url |-> <<>>,
    arch_hashes |-> [a \in {X64, X86} |-> NewHash(a)],
    installer_urls |-> [a \in {X64, X86} |-> Url(V13, a \o <<".", "msi">>)],
    installer_url |-> Url(V13, <<"any">>),
    product_codes |-> [a \in archs |-> NewCode(a)], today |-> Date2] :
   archs \in {{X64, X86}, {X64}}}
  \cup
  {[kind |-> "installer", version |-> V13, sha256 |-> NewHash(X64),
    signature_sha256 |-> <<>>, release_notes |-> <<>>, release_notes_url |-> <<>>,
    arch_hashes |-> NoDict, installer_urls |-> NoDict,
    installer_url |-> Url(V13, X64 \o <<".", "msi">>),
    product_codes |-> [k \in {DefaultKey} |-> NewCode(DefaultKey)], today |-> Date2]}

InitMsi ==
  \E m \in MsiManifests(V12) : \E r \in MsiRequests(V12) :
    /\ orig = m
    /\ req = r

\* installer manifests by the form of their ReleaseDate: `top` is the field
\* above the installer list ("none", "plain" for 2023-09-19, "quoted" for
\* '2023-09-19'), `each` gives every architecture block a ReleaseDate of its own
DatedBlock(a, v, each) ==
  <<ArchitectureKey \o <<" ">> \o a,
    Fld(2, InstallerUrlKey, Url(v, a)),
    Fld(2, InstallerSha256Key, OwnHash(a))>>
  \o (IF each THEN <<Fld(2, ReleaseDateKey, Date1)>> ELSE <<>>)

DatedManifests(v) ==
  {Join(Header(v)
        \o (IF top = "none" THEN <<>>
            ELSE <<Fld(0, ReleaseDateKey, IF top = "quoted" THEN Quoted(Date1) ELSE Date1)>>)
        \o <<<<"Installers", ":">>>>
        \o DatedBlock(X64, v, each) \o DatedBlock(X86, v, each)
        \o Trailer("installer")) :
   top \in {"none", "plain", "quoted"}, each \in BOOLEAN}

DatedRequests(v) ==
  {[kind |-> "installer", version |-> V13, sha256 |-> NewHash(X64),
    signature_sha256 |-> <<>>, release_notes |-> <<>>, release_notes_url |-> <<>>,
    arch_hashes |-> [a \in archs |-> NewHash(a)],
    installer_urls |-> [a \in archs |-> Url(V13, a)],
    installer_url |-> Url(V13, <<"any">>),
    product_codes |-> NoDict, today |-> Date2] :
   archs \in {{X64, X86}, {X64}}}

InitDated ==
  \E m \in DatedManifests(V12) : \E r \in DatedRequests(V12) :
    /\ orig = m
    /\ req = r

\* manifests by the form of their PackageVersion: bare (1.0.0), in single or
\* double quotes, or with a suffix (1.0.0-beta); `short` gives the InstallerUrl
\* the version without its trailing '.0'
V100 == <<"1", ".", "0", ".", "0">>
V110 == <<"1", ".", "1", ".", "0">>
V200 == <<"2", ".", "0", ".", "0">>

VersionForms == {"bare", "single", "double", "suffix"}

WrittenVersion(form, v) ==
  IF form = "single" THEN <<"'">> \o v \o <<"'">>
  ELSE IF form = "double" THEN <<"\"">> \o v \o <<"\"">>
  ELSE IF form = "suffix" THEN v \o <<"-", "beta">>
  ELSE v

VersionedManifests(v) ==
  {Join(<<Fld(0, <<"PackageIdentifier", ":">>, <<"Pkg", ".", "App">>),
          Fld(0, <<"PackageVersion", ":">>, WrittenVersion(form, v)),
          <<"Installers", ":">>, ArchitectureKey \o <<" ">> \o X64,
          Fld(2, InstallerUrlKey,
              Url(IF short /\ EndsWithDotZero(v) THEN Take(v, Len(v) - 2) ELSE v, <<"app">>)),
          Fld(2, InstallerSha256Key, OwnHash(X64))>>
        \o Trailer("installer")) :
   form \in VersionForms, short \in BOOLEAN}

\* the requests of a single-architecture run for a versioned manifest
VersionedRequests(v) ==
  {[kind |-> "installer", version |-> nv, sha256 |-> NewHash(X64),
    signature_sha256 |-> <<>>, release_notes |-> <<>>, release_notes_url |-> <<>>,
    arch_hashes |-> NoDict, installer_urls |-> NoDict,
    installer_url |-> Url(nv, <<"app">>),
    product_codes |-> NoDict, today |-> Date2] :
   nv \in IF v = V100 THEN {V110, V200, V13} ELSE {V13, V200}}

InitVersioned ==
  \E v \in {V100, V12} : \E m \in VersionedManifests(v) : \E r \in VersionedRequests(v) :
    /\ orig = m
    /\ req = r

\* ------------------------------------------------------------------ the patch pipeline

NoVer == [v1 |-> <<>>, v2 |-> <<>>, legacy |-> FALSE, res |-> 0, done |-> FALSE]
NoRun == [stage |-> "off"]

\* process_template_and_create_version has read one template file
Init ==
  /\ InitInstaller \/ InitLocale \/ InitSingle \/ InitMsi \/ InitDated \/ InitVersioned
  /\ content = orig
  /\ prev = orig
  /\ pc = "version"
  /\ ver = NoVer
  /\ run = NoRun

\* one step of update_manifest_content: content = new
Step(from, to, new) ==
  /\ pc = from
  /\ pc' = to
  /\ prev' = content
  /\ content' = new
  /\ UNCHANGED <<orig, req, ver, run>>


\* the caller adds the missing architectures to an installer file of a
\* multi-architecture run, and writes the file
WriteOf(c, r) ==
  IF r.kind = "installer" /\ DOMAIN r.arch_hashes # {} /\ DOMAIN r.installer_urls # {}
  THEN AddMissingArchitectures(c, r.arch_hashes, r.installer_urls)
  ELSE c

DoVersion == Step("version", "url", VersionSubst(content, req.version))
DoUrl == Step("url", "hash", UrlStep(content, req))
DoHash == Step("hash", "signature", HashStep(content, req))
DoSignature == Step("signature", "product_code", SignatureStep(content, req))
DoProductCode == Step("product_code", "release_date", ProductCodeStep(content, req))
DoReleaseDate == Step("release_date", "release_notes", ReleaseDateStep(content, req))
DoReleaseNotes == Step("release_notes", "release_notes_url", ReleaseNotesStep(content, req))
DoReleaseNotesUrl == Step("release_notes_url", "cleanup", ReleaseNotesUrlStep(content, req))
DoCleanup == Step("cleanup", "patched", RemoveDuplicateFields(content))
DoWrite == Step("patched", "written", WriteOf(content, req))

Next ==
  \/ DoVersion
  \/ DoUrl
  \/ DoHash
  \/ DoSignature
  \/ DoProductCode
  \/ DoReleaseDate
  \/ DoReleaseNotes
  \/ DoReleaseNotesUrl
  \/ DoCleanup
  \/ DoWrite

Spec == Init /\ [][Next]_vars

\* ------------------------------------------------------------------ claims

\* every occurrence of p in s has no version character ([0-9.]) next to it
Delimited(s, p) ==
  \A i \in 1..(Len(s) - Len(p) + 1) :
    SubSeq(s, i, i + Len(p) - 1) = p =>
      /\ i = 1 \/ ~IsVerChar(s[i - 1])
      /\ i + Len(p) > Len(s) \/ ~IsVerChar(s[i + Len(p)])

\* the old version can be told apart from the new one: the new version is not
\* in the template, does not contain the old one, and, where both end in '.0',
\* does not contain the old short form
Separable(c, old, new) ==
  /\ old # <<>>
  /\ old # new
  /\ ~Contains(c, new)
  /\ ~Contains(new, old)
  /\ Delimited(c, old)
  /\ EndsWithDotZero(old) /\ EndsWithDotZero(new) => ~Contains(new, Take(old, Len(old) - 2))

ArchLines(lines) == {i \in 1..Len(lines) : ArchOfLine(lines[i]) # <<>>}
NthArchLine(lines, n) ==
  CHOOSE i \in ArchLines(lines) : Cardinality({j \in ArchLines(lines) : j <= i}) = n

\* the n-th architecture block: from its '- Architecture:' line up to the next
\* one, or up to the next line that is not indented
BlockLast(lines, n) ==
  LET first == NthArchLine(lines, n)
      stops == {i \in (first + 1)..Len(lines) :
                  ArchOfLine(lines[i]) # <<>> \/ (lines[i] # <<>> /\ IndentOf(lines[i]) = 0)}
  IN  IF stops = {} THEN Len(lines) ELSE (CHOOSE i \in stops : \A j \in stops : i <= j) - 1
BlockLines(lines, n) == SubSeq(lines, NthArchLine(lines, n), BlockLast(lines, n))

\* the offsets, inside a block, of the lines that hold a field
FieldAt(block, key) == {i \in 1..Len(block) : Contains(block[i], key)}
FieldLine(indent, key, value) == Spaces(indent) \o key \o <<" ">> \o value

\* C2 as stated: a block of an architecture A of arch_hashes that holds two
\* InstallerSha256 lines holds exactly one in the output of
\* update_manifest_content, where the first one stood, with the value arch_hashes[A]
C2_AsStated ==
  pc = "patched" =>
    \A n \in 1..Cardinality(ArchLines(Split(orig))) :
      LET b == BlockLines(Split(orig), n)
          a == ArchOfLine(b[1])
          out == BlockLines(Split(content), n)
          at == FieldAt(b, InstallerSha256Key)
      IN  a \in DOMAIN req.arch_hashes /\ Cardinality(at) = 2 =>
            /\ Cardinality(FieldAt(out, InstallerSha256Key)) = 1
            /\ \E i \in at :
                 /\ \A j \in at : i <= j
                 /\ i <= Len(out)
                 /\ out[i] = FieldLine(IndentOf(b[i]), InstallerSha256Key, req.arch_hashes[a])

\* the failing case of C2: the second of two blocks of one architecture held
\* two InstallerSha256 lines and is written without any
C2_HashLost ==
  /\ pc = "patched"
  /\ Cardinality(ArchLines(Split(orig))) = 2
  /\ ArchOfLine(BlockLines(Split(orig), 1)[1]) = ArchOfLine(BlockLines(Split(orig), 2)[1])
  /\ ArchOfLine(BlockLines(Split(orig), 2)[1]) \in DOMAIN req.arch_hashes
  /\ Cardinality(FieldAt(BlockLines(Split(orig), 2), InstallerSha256Key)) = 2
  /\ FieldAt(BlockLines(Split(content), 2), InstallerSha256Key) = {}

\* the architecture in force at line i: that of the last '- Architecture:' line
\* at or above it, <<>> above the first
ArchInForce(lines, i) ==
  LET above == {j \in ArchLines(lines) : j <= i}
  IN  IF above = {} THEN <<>>
      ELSE ArchOfLine(lines[CHOOSE j \in above : \A k \in above : k <= j])

\* the lines of a field that lie under an architecture of the map, and those of
\* them that are not the first of their architecture
Governed(lines, key, dict) ==
  {i \in 1..Len(lines) : Contains(lines[i], key) /\ ArchInForce(lines, i) \in DOMAIN dict}
Later(lines, key, dict) ==
  {i \in Governed(lines, key, dict) :
     \E j \in Governed(lines, key, dict) :
       j < i /\ ArchInForce(lines, j) = ArchInForce(lines, i)}

\* the lines left when the lines of `gone` are deleted, each survivor mapped by Line
Survivors(lines, gone, Line(_)) ==
  LET kept == (1..Len(lines)) \ gone
  IN  [k \in 1..Cardinality(kept) |->
         Line(CHOOSE i \in kept : Cardinality({j \in kept : j <= i}) = k)]

\* C3: with installer_urls given, the URL step deletes every InstallerUrl line
\* that is not the first one under its architecture A of the map, rewrites the
\* first one to installer_urls[A] at its indentation, and leaves every other
\* line (InstallerUrl lines above the first Architecture line or under an
\* architecture that is not in the map included) as it was
C3_MultiArchUrl ==
  pc = "hash" /\ DOMAIN req.installer_urls # {} =>
    LET lines == Split(prev)
        hit == Governed(lines, InstallerUrlKey, req.installer_urls)
        Rewritten(i) ==
          IF i \in hit
          THEN FieldLine(IndentOf(lines[i]), InstallerUrlKey,
                         req.installer_urls[ArchInForce(lines, i)])
          ELSE lines[i]
    IN  Split(content)
          = Survivors(lines, Later(lines, InstallerUrlKey, req.installer_urls), Rewritten)

\* a run where all three cases occur: an InstallerUrl line above the installer
\* list and one under an architecture outside the map are kept, one is
\* rewritten, one is deleted
C3_Witness ==
  /\ pc = "hash"
  /\ DOMAIN req.installer_urls # {}
  /\ LET lines == Split(prev)
         hit == Governed(lines, InstallerUrlKey, req.installer_urls)
     IN  /\ Later(lines, InstallerUrlKey, req.installer_urls) # {}
         /\ \E i \in 1..Len(lines) :
              Contains(lines[i], InstallerUrlKey) /\ ArchInForce(lines, i) = <<>>
         /\ \E i \in 1..Len(lines) :
              /\ Contains(lines[i], InstallerUrlKey)
              /\ ArchInForce(lines, i) # <<>>
              /\ i \notin hit
         /\ \E i \in hit : lines[i] \notin {Split(content)[k] : k \in 1..Len(Split(content))}

RECURSIVE Concat(_)
Concat(seqs) == IF Len(seqs) = 0 THEN <<>> ELSE seqs[1] \o Concat(Tail(seqs))

\* the caller handed the patched text to add_missing_architectures
AddedTo == pc = "written" /\ req.kind = "installer"
           /\ DOMAIN req.arch_hashes # {} /\ DOMAIN req.installer_urls # {}

\* the architectures of arch_hashes that name no block of the text
MissingArchs(lines) == DOMAIN req.arch_hashes \ {ArchOfLine(lines[i]) : i \in 1..Len(lines)}

\* the NestedInstallerType/NestedInstallerFiles lines of the last block: from
\* its NestedInstallerType line up to its InstallerUrl or InstallerSha256 line
NestedOfLastBlock(lines) ==
  LET b == IF ArchLines(lines) = {} THEN <<>>
           ELSE BlockLines(lines, Cardinality(ArchLines(lines)))
      from == FieldAt(b, NestedInstallerTypeKey)
      first == CHOOSE i \in from : \A j \in from : i <= j
      stops == {i \in first..Len(b) :
                  Contains(b[i], InstallerUrlKey) \/ Contains(b[i], InstallerSha256Key)}
  IN  IF from = {} THEN <<>>
      ELSE IF stops = {} THEN SubSeq(b, first, Len(b))
      ELSE SubSeq(b, first, (CHOOSE i \in stops : \A j \in stops : i <= j) - 1)

\* the block the claim describes for architecture a
ExpectedBlock(lines, a) ==
  <<ArchitectureKey \o <<" ">> \o a>> \o NestedOfLastBlock(lines)
  \o <<FieldLine(2, InstallerUrlKey, req.installer_urls[a]),
       FieldLine(2, InstallerSha256Key, req.arch_hashes[a])>>

\* the order of two different names as strings: by the first character that
\* differs, digits before letters, "a" before "x"
CharRank(t) ==
  IF t \in Digits THEN CHOOSE n \in 0..9 : ToString(n) = t
  ELSE IF t = "arm" THEN 10 ELSE 11
NameBefore(a, b) ==
  \E i \in 1..Len(a) :
    /\ i <= Len(b)
    /\ SubSeq(a, 1, i - 1) = SubSeq(b, 1, i - 1)
    /\ CharRank(a[i]) < CharRank(b[i])
Ascending(set) ==
  CHOOSE s \in [1..Cardinality(set) -> set] :
    \A i, j \in 1..Cardinality(set) : i < j => NameBefore(s[i], s[j])

\* the output is the input with one block per missing architecture, in
\* ascending order of the names, put right before the ManifestType line
BlocksInserted(lines, out) ==
  LET types == {i \in 1..Len(lines) : StartsWith(lines[i], ManifestTypeKey)}
      mt == CHOOSE i \in types : \A j \in types : j <= i
      new == Ascending(MissingArchs(lines))
  IN  /\ types # {}
      /\ out = SubSeq(lines, 1, mt - 1)
               \o Concat([k \in 1..Len(new) |-> ExpectedBlock(lines, new[k])])
               \o SubSeq(lines, mt, Len(lines))

\* C4 as stated: for every installer manifest, every architecture of arch_hashes
\* without a block gets exactly one new block
C4_AsStated == AddedTo => BlocksInserted(Split(prev), Split(content))

\* C4 (amended): for every installer manifest that has at least one
\* '- Architecture:' block, add_missing_architectures puts, right before the
\* ManifestType line and in ascending order of the names, one block per
\* architecture of arch_hashes that names no block, made of the Architecture
\* line, the nested-installer lines of the last existing block, installer_urls[a]
\* and arch_hashes[a]; all other lines keep their place and order
C4_MissingArchitectures ==
  AddedTo /\ ArchLines(Split(prev)) # {} => BlocksInserted(Split(prev), Split(content))

\* two architectures are added to a manifest whose last block has a nested
\* installer with two files
C4_Witness ==
  /\ AddedTo
  /\ ArchLines(Split(prev)) # {}
  /\ Cardinality(MissingArchs(Split(prev))) = 2
  /\ Len(NestedOfLastBlock(Split(prev))) >= 4
  /\ Len(Split(content)) = Len(Split(prev)) + 2 * (3 + Len(NestedOfLastBlock(Split(prev))))

\* the ManifestType and ManifestVersion lines of a text, in their order
TrailerLines(c) ==
  SelectSeq(Split(c), LAMBDA l : StartsWith(l, ManifestTypeKey)
                                 \/ StartsWith(l, <<"ManifestVersion", ":">>))

\* C5 as stated: the ManifestType and ManifestVersion lines of the text that
\* update_manifest_content and add_missing_architectures leave are those of the
\* template, character for character
C5_AsStated == pc = "written" => TrailerLines(content) = TrailerLines(orig)

\* the failing case of C5: the schema version of the template equals the old
\* package version and is written as the new package version
C5_TrailerRewritten ==
  /\ pc = "written"
  /\ OldVersion(orig) = V190
  /\ <<"ManifestVersion", ":", " ">> \o V190 \in {Split(orig)[i] : i \in 1..Len(Split(orig))}
  /\ <<"ManifestVersion", ":", " ">> \o req.version
       \in {Split(content)[i] : i \in 1..Len(Split(content))}
  /\ req.version # V190

\* no block holds a second InstallerUrl or InstallerSha256 line
WellFormed(lines) ==
  \A n \in 1..Cardinality(ArchLines(lines)) :
    /\ Cardinality(FieldAt(BlockLines(lines, n), InstallerUrlKey)) <= 1
    /\ Cardinality(FieldAt(BlockLines(lines, n), InstallerSha256Key)) <= 1

\* the request carries the template's own version and, for every block, the
\* URL and the hash the block already holds
OwnData(lines) ==
  /\ req.version = OldVersion(orig)
  /\ \A i \in 1..Len(lines) :
       LET a == ArchInForce(lines, i)
       IN  /\ Contains(lines[i], InstallerUrlKey) /\ a # <<>> =>
                /\ a \in DOMAIN req.installer_urls
                /\ lines[i] = FieldLine(IndentOf(lines[i]), InstallerUrlKey, req.installer_urls[a])
           /\ Contains(lines[i], InstallerSha256Key) /\ a # <<>> =>
                /\ a \in DOMAIN req.arch_hashes
                /\ lines[i] = FieldLine(IndentOf(lines[i]), InstallerSha256Key, req.arch_hashes[a])

\* C6 as stated: patching a well-formed manifest of N >= 1 architecture blocks
\* with its own version, hashes and URLs leaves the number of lines and every
\* line but the ReleaseDate line as they were
C6_AsStated ==
  pc = "patched" /\ ArchLines(Split(orig)) # {} /\ WellFormed(Split(orig)) /\ OwnData(Split(orig)) =>
    /\ Len(Split(content)) = Len(Split(orig))
    /\ \A i \in 1..Len(Split(orig)) :
         Contains(Split(orig)[i], ReleaseDateKey) \/ Split(content)[i] = Split(orig)[i]

\* the failing case of C6: a single block with two NestedInstallerFiles items,
\* patched with its own data, comes out shorter
C6_ItemLost ==
  /\ pc = "patched"
  /\ Cardinality(ArchLines(Split(orig))) = 1
  /\ WellFormed(Split(orig))
  /\ OwnData(Split(orig))
  /\ Cardinality(FieldAt(Split(orig), <<"-", " ", "RelativeFilePath", ":">>)) = 2
  /\ Cardinality(FieldAt(Split(content), <<"-", " ", "RelativeFilePath", ":">>)) = 1
  /\ Len(Split(content)) = Len(Split(orig)) - 2

\* the lines of a block scalar: those under a field line that ends in a block
\* indicator, as long as they are blank or indented deeper than that line
IsComment(line) == StartsWith(LStrip(line), <<"#">>)
OpensScalar(line) ==
  /\ ~IsComment(line)
  /\ Len(RStrip(line)) > 0
  /\ RStrip(line)[Len(RStrip(line))] \in {"|", ">"}
     \/ (Len(RStrip(line)) > 1
         /\ SubSeq(RStrip(line), Len(RStrip(line)) - 1, Len(RStrip(line))) = <<"|", "-">>)
InScalar(lines, i) ==
  \E h \in 1..(i - 1) :
    /\ OpensScalar(lines[h])
    /\ \A j \in (h + 1)..i : lines[j] = <<>> \/ IndentOf(lines[j]) > IndentOf(lines[h])

\* the key of a line that reads '<key>: ...' or '- <key>: ...', <<>> for others
KeyOfLine(line) ==
  LET l == IF StartsWith(LStrip(line), <<"-", " ">>) THEN Drop(LStrip(line), 2) ELSE LStrip(line)
      w == SpanWord(l)
  IN  IF w > 0 /\ Len(l) > w /\ l[w + 1] = ":" /\ (Len(l) = w + 1 \/ IsSpace(l[w + 2]))
      THEN Take(l, w) ELSE <<>>

\* the field names of a text: the keys of its lines, comments and block scalar
\* lines aside
FieldNames(c) ==
  LET lines == Split(c)
  IN  {KeyOfLine(lines[i]) :
         i \in {k \in 1..Len(lines) : ~IsComment(lines[k]) /\ ~InScalar(lines, k)}} \ {<<>>}

\* C7 as stated: every field name of the output of update_manifest_content
\* occurs, followed by a colon, in the template
C7_AsStated ==
  pc = "patched" => \A f \in FieldNames(content) : Contains(orig, f \o <<":">>)

\* the failing case of C7: the template holds ReleaseNotes only as a comment,
\* and the output holds a field 'Fixed' made of a line of the notes
C7_GhostField ==
  /\ pc = "patched"
  /\ ReleaseNotesKey[1] \notin {f[1] : f \in FieldNames(orig)}
  /\ ~Contains(orig, <<"Fixed">>)
  /\ <<"Fixed">> \in FieldNames(content)

\* a text with every CRLF and every lone CR turned into LF
Normalized(t) ==
  Survivors(t, {i \in 1..Len(t) : t[i] = "\r" /\ i < Len(t) /\ t[i + 1] = "\n"},
            LAMBDA i : IF t[i] = "\r" THEN "\n" ELSE t[i])

\* a text without the newlines at its end
Chomp(t) ==
  LET ends == {n \in 0..Len(t) : \A i \in (n + 1)..Len(t) : t[i] = "\n"}
  IN  Take(t, CHOOSE n \in ends : \A m \in ends : n <= m)

\* what a YAML parser reads as the value of the 'ReleaseNotes: |-' block scalar:
\* the lines under the field that are blank or indented, without their two
\* spaces of indentation, joined and stripped of trailing newlines; <<"?">>
\* when the text holds no such field
ReadNotes(c) ==
  LET lines == Split(c)
      heads == {i \in 1..Len(lines) : lines[i] = ReleaseNotesKey \o <<" ", "|", "-">>}
      h == CHOOSE i \in heads : \A j \in heads : i <= j
      Body(i) == \A j \in (h + 1)..i : Strip(lines[j]) = <<>> \/ StartsWith(lines[j], <<" ", " ">>)
      last == CHOOSE i \in h..Len(lines) : Body(i) /\ (i = Len(lines) \/ ~Body(i + 1))
      Value(j) == IF Strip(lines[h + j]) = <<>> THEN <<>> ELSE Drop(lines[h + j], 2)
  IN  IF heads = {} THEN <<"?">>
      ELSE IF last = h THEN <<>>
      ELSE Chomp(JoinWith([j \in 1..(last - h) |-> Value(j)], <<"\n">>))

\* the template holds ReleaseNotes as a field with a one-line value or a '|-' block
HasNotesField(c) ==
  \E i \in 1..Len(Split(c)) :
    /\ StartsWith(Split(c)[i], ReleaseNotesKey)
    /\ Split(c)[i] # ReleaseNotesKey \o <<" ", "|">>

\* C8 as stated: for every release-notes text, the 'ReleaseNotes: |-' block of
\* the final output of update_manifest_content reads back as the supplied text
\* with CRLF and CR turned into LF, trailing newlines aside
C8_AsStated ==
  pc = "patched" /\ req.release_notes # <<>> /\ HasNotesField(orig) =>
    ReadNotes(content) = Chomp(Normalized(req.release_notes))

\* the failing case of C8: of two lines of the notes that start with the same
\* 'Word:' prefix only the first one is read back
C8_LineLost ==
  /\ pc = "patched"
  /\ HasNotesField(orig)
  /\ req.release_notes = <<"Fixed", ":", " ", "crash", "\n", "Fixed", ":", " ", "typo">>
  /\ ReadNotes(prev) = req.release_notes
  /\ ReadNotes(content) = <<"Fixed", ":", " ", "crash">>

\* ------------------------------------------------------------------ compare_versions

MaxParts == 3  \* components of a version string

\* the decimal value of a string of digits (int('09') = 9)
RECURSIVE IntOf(_)
IntOf(d) ==
  IF Len(d) = 0 THEN 0
  ELSE 10 * IntOf(Take(d, Len(d) - 1)) + (CHOOSE n \in 0..9 : ToString(n) = d[Len(d)])

\* the components of a version string and the separators between them
IsSep(t) == t \in {".", "-"}
SepsOf(v) == SelectSeq(v, IsSep)
RECURSIVE PartsOf(_)
PartsOf(v) ==
  LET i == Least({k \in 1..Len(v) : IsSep(v[k])})
  IN  IF i = 0 THEN <<v>> ELSE <<Take(v, i - 1)>> \o PartsOf(Drop(v, i))

\* a sequence of numbers without the zeros at its end
RECURSIVE StripZeros(_)
StripZeros(ns) ==
  IF Len(ns) > 0 /\ ns[Len(ns)] = 0 THEN StripZeros(Take(ns, Len(ns) - 1)) ELSE ns

\* tuples of numbers as Python orders them: -1, 0 or 1
RECURSIVE CmpSeq(_, _)
CmpSeq(a, b) ==
  IF Len(a) = 0 /\ Len(b) = 0 THEN 0
  ELSE IF Len(a) = 0 THEN -1
  ELSE IF Len(b) = 0 THEN 1
  ELSE IF a[1] < b[1] THEN -1
  ELSE IF a[1] > b[1] THEN 1
  ELSE CmpSeq(Tail(a), Tail(b))

\* packaging.version.Version(v) accepts, of the strings made of digits, dots and
\* hyphens, a dotted release with at most one '-N' (a post-release) at its end
IsPep440(v) ==
  /\ \A i \in 1..Len(PartsOf(v)) : PartsOf(v)[i] # <<>>
  /\ \A i \in 1..Len(SepsOf(v)) : SepsOf(v)[i] = "-" => i = Len(SepsOf(v))

\* Version._key for such a string: the release without trailing zeros, then the
\* post-release number (-1 stands for 'no post-release', which sorts first)
VersionKey(v) ==
  LET nums == [i \in 1..Len(PartsOf(v)) |-> IntOf(PartsOf(v)[i])]
      post == Len(SepsOf(v)) > 0 /\ SepsOf(v)[Len(SepsOf(v))] = "-"
  IN  [release |-> StripZeros(IF post THEN Take(nums, Len(nums) - 1) ELSE nums),
       post |-> IF post THEN nums[Len(nums)] ELSE -1]

CmpVersion(a, b) ==
  LET r == CmpSeq(VersionKey(a).release, VersionKey(b).release)
  IN  IF r # 0 THEN r ELSE CmpSeq(<<VersionKey(a).post>>, <<VersionKey(b).post>>)

\* LegacyVersion._key of packaging < 22: the numbers, '*final-' (-1) for every
\* hyphen and '*final' (-2) at the end, zeros dropped before each marker; the
\* markers sort before every zero-padded number
RECURSIVE LegacyKey(_, _)
LegacyKey(v, parts) ==
  LET i == Least({k \in 1..Len(v) : IsSep(v[k])})
      num == IF i = 0 THEN v ELSE Take(v, i - 1)
      with == IF num = <<>> THEN parts ELSE Append(parts, IntOf(num))
  IN  IF i = 0 THEN Append(StripZeros(with), -2)
      ELSE IF v[i] = "-" THEN LegacyKey(Drop(v, i), Append(StripZeros(with), -1))
      ELSE LegacyKey(Drop(v, i), with)

\* str < str: by code point, '-' < '.' < '0' < ... < '9'
CodePoint(t) == IF t = "-" THEN 45 ELSE IF t = "." THEN 46 ELSE 48 + IntOf(<<t>>)
CmpStr(a, b) == CmpSeq([i \in 1..Len(a) |-> CodePoint(a[i])], [i \in 1..Len(b) |-> CodePoint(b[i])])

\* compare_versions(v1, v2).  version.parse raises InvalidVersion for a string
\* that is not PEP 440 (packaging >= 22), or returns a LegacyVersion, which
\* sorts before every Version (packaging < 22); the repository pins neither
CompareVersions(v1, v2, legacy) ==
  IF IsPep440(v1) /\ IsPep440(v2) THEN CmpVersion(v1, v2)
  ELSE IF ~legacy THEN CmpStr(v1, v2)
  ELSE IF IsPep440(v1) THEN 1
  ELSE IF IsPep440(v2) THEN -1
  ELSE CmpSeq(LegacyKey(v1, <<>>), LegacyKey(v2, <<>>))

\* version strings: up to MaxParts components, the first 9 or 10, the others
\* 0, 9, 09 or 10, with a dot or a hyphen between two components
FirstComponents == {<<"9">>, <<"1", "0">>}
Components == {<<"0">>, <<"9">>, <<"0", "9">>, <<"1", "0">>}
RECURSIVE VersionsOf(_)
VersionsOf(n) ==
  IF n = 1 THEN FirstComponents
  ELSE {v \o <<s>> \o c : v \in VersionsOf(n - 1), s \in {".", "-"}, c \in Components}
VersionStrings == UNION {VersionsOf(n) : n \in 1..MaxParts}

InitVer ==
  /\ ver \in [v1 : VersionStrings, v2 : VersionStrings, legacy : BOOLEAN,
              res : {0}, done : {FALSE}]
  /\ pc = "compare"
  /\ content = <<>>
  /\ prev = <<>>
  /\ orig = <<>>
  /\ req = <<>>
  /\ run = NoRun

DoCompare ==
  /\ pc = "compare"
  /\ ~ver.done
  /\ ver' = [ver EXCEPT !.res = CompareVersions(ver.v1, ver.v2, ver.legacy), !.done = TRUE]
  /\ pc' = "compared"
  /\ UNCHANGED <<content, prev, orig, req, run>>

NextVer == DoCompare

SpecVer == InitVer /\ [][NextVer]_vars

\* the order of the components as numbers, a missing component counting as 0
NumericOrder(a, b) ==
  LET Nums(v) == StripZeros([i \in 1..Len(PartsOf(v)) |-> IntOf(PartsOf(v)[i])])
  IN  CmpSeq(Nums(a), Nums(b))

\* C9 as stated: compare_versions orders dotted, hyphenated and mixed version
\* strings by the numeric order of their components
C9_AsStated == ver.done => ver.res = NumericOrder(ver.v1, ver.v2)

\* the failing case of C9: a hyphenated date against a dotted one comes out as
\* older although its last component is greater, whatever packaging is installed
C9_Lexical ==
  /\ ver.done
  /\ ver.v1 = <<"1", "0", "-", "1", "0", "-", "1", "0">>
  /\ ver.v2 = <<"1", "0", ".", "1", "0", ".", "0", "9">>
  /\ ver.res = -1
  /\ NumericOrder(ver.v1, ver.v2) = 1

\* ------------------------------------------------------------------ main: the PR run

MaxPrs == 2  \* pull requests in the result of the PR search

PackageId == <<"Pkg", ".", "App">>
RunVersion == V13

\* str.lower()
LowerOf(t) ==
  IF t = "Pkg" THEN "pkg" ELSE IF t = "App" THEN "app" ELSE IF t = "Other" THEN "other"
  ELSE IF t = "New" THEN "new" ELSE IF t = "Update" THEN "update" ELSE t
Lower(s) == [i \in 1..Len(s) |-> LowerOf(s[i])]

\* f"New version: {package_id} version {version}": the commit message and PR title
TitleOf(package_id, version) ==
  <<"New", " ", "version", ":", " ">> \o package_id \o <<" ", "version", " ">> \o version

\* the titles the search may return: this run's title, the older title format
\* with the id in lower case, the title of a later version, that of another package
PrTitles ==
  {TitleOf(PackageId, RunVersion),
   <<"Update", " ">> \o Lower(PackageId) \o <<" ", "to", " ">> \o RunVersion,
   TitleOf(PackageId, RunVersion \o <<".", "1">>),
   TitleOf(<<"Other", ".", "App">>, RunVersion)}
PrStates == {"OPEN", "MERGED", "CLOSED"}
PrLists == UNION {[1..n -> [title : PrTitles, state : PrStates]] : n \in 0..MaxPrs}

\* package_id.lower() in title_lower and version in pr['title']
TitleMatches(pr, package_id, version) ==
  Contains(Lower(pr.title), Lower(package_id)) /\ Contains(pr.title, version)

\* a scan that gives up at the first pull request whose title matches
RECURSIVE ScanFirstPr(_, _, _)
ScanFirstPr(prs, package_id, version) ==
  IF Len(prs) = 0 THEN FALSE
  ELSE IF TitleMatches(prs[1], package_id, version)
  THEN prs[1].state \in {"OPEN", "MERGED"}
  ELSE ScanFirstPr(Tail(prs), package_id, version)

\* check_existing_pr: the loop returns True at the first PR whose title matches
\* and whose state is OPEN or MERGED; a failed `gh pr list` gives False
RECURSIVE ScanPrs(_, _, _)
ScanPrs(prs, package_id, version) ==
  IF Len(prs) = 0 THEN FALSE
  ELSE IF TitleMatches(prs[1], package_id, version) /\ prs[1].state \in {"OPEN", "MERGED"}
  THEN TRUE
  ELSE ScanPrs(Tail(prs), package_id, version)
CheckExistingPr(prs, gh_ok, package_id, version) ==
  IF gh_ok THEN ScanPrs(prs, package_id, version) ELSE FALSE

InitRun ==
  /\ run \in [stage : {"start"}, no_pr : BOOLEAN, fork_path : BOOLEAN, prs : PrLists,
              search : {"none"}, log : {<<>>}, code : {-1}]
  /\ pc = "run"
  /\ content = <<>>
  /\ prev = <<>>
  /\ orig = <<>>
  /\ req = <<>>
  /\ ver = NoVer

\* a failure that leaves the run with code 0
ExitZero(code) == [run EXCEPT !.stage = "exit", !.code = 0]
Exit(code) == [run EXCEPT !.stage = "exit", !.code = code]
Frame == UNCHANGED <<pc, content, prev, orig, req, ver>>

\* if not args.no_pr and check_existing_pr(package_id, version): sys.exit(0)
GuardPr ==
  /\ run.stage = "start"
  /\ \E gh_ok \in BOOLEAN :
       IF run.no_pr THEN run' = [run EXCEPT !.stage = "env"]
       ELSE LET searched == [run EXCEPT !.search = IF gh_ok THEN "ok" ELSE "failed"]
            IN  IF CheckExistingPr(run.prs, gh_ok, PackageId, RunVersion)
                THEN run' = [searched EXCEPT !.stage = "exit", !.code = 0]
                ELSE run' = [searched EXCEPT !.stage = "env"]
  /\ Frame

\* the token is read from the environment; without one the run exits with 1
ReadToken ==
  /\ run.stage = "env"
  /\ \E token \in BOOLEAN :
       run' = IF ~token THEN Exit(1)
              ELSE [run EXCEPT !.stage = IF run.fork_path THEN "update" ELSE "clone"]
  /\ Frame

CloneFork ==
  /\ run.stage = "clone"
  /\ \E ok \in BOOLEAN :
       run' = IF ok THEN [run EXCEPT !.stage = "branch", !.log = Append(@, "clone")]
              ELSE Exit(1)
  /\ Frame

\* create_pr_branch re-raises a failed checkout: the interpreter exits with 1
CreateBranch ==
  /\ run.stage = "branch"
  /\ \E ok \in BOOLEAN :
       run' = IF ok THEN [run EXCEPT !.stage = "update", !.log = Append(@, "branch")]
              ELSE Exit(1)
  /\ Frame

\* update_manifests writes the new version directory, or fails
UpdateManifests ==
  /\ run.stage = "update"
  /\ \E ok \in BOOLEAN :
       run' = IF ~ok THEN Exit(1)
              ELSE IF run.fork_path
              THEN [run EXCEPT !.stage = "exit", !.code = 0, !.log = Append(@, "write")]
              ELSE [run EXCEPT !.stage = "commit", !.log = Append(@, "write")]
  /\ Frame

\* commit_and_push: git add, commit, push; any failure gives False
CommitAndPush ==
  /\ run.stage = "commit"
  /\ \E out \in {"ok", "commit failed", "push failed"} :
       run' = IF out = "commit failed" THEN Exit(1)
              ELSE IF out = "push failed"
              THEN [Exit(1) EXCEPT !.log = Append(@, "commit")]
              ELSE IF run.no_pr
              THEN [run EXCEPT !.stage = "exit", !.code = 0,
                               !.log = Append(Append(@, "commit"), "push")]
              ELSE [run EXCEPT !.stage = "pr", !.log = Append(Append(@, "commit"), "push")]
  /\ Frame

CreatePullRequest ==
  /\ run.stage = "pr"
  /\ \E ok \in BOOLEAN :
       run' = IF ok THEN [run EXCEPT !.stage = "exit", !.code = 0, !.log = Append(@, "pr")]
              ELSE Exit(1)
  /\ Frame

NextRun ==
  \/ GuardPr
  \/ ReadToken
  \/ CloneFork
  \/ CreateBranch
  \/ UpdateManifests
  \/ CommitAndPush
  \/ CreatePullRequest

SpecRun == InitRun /\ [][NextRun]_vars

\* the result holds an OPEN or MERGED pull request for this package and version
ActivePrFor(prs) ==
  \E i \in 1..Len(prs) :
    /\ prs[i].state \in {"OPEN", "MERGED"}
    /\ prs[i].title \in {TitleOf(PackageId, RunVersion),
                         <<"Update", " ">> \o Lower(PackageId) \o <<" ", "to", " ">> \o RunVersion}

\* C10: in a run without --no-pr whose PR search returned an OPEN or MERGED
\* pull request for this package and version, the run has left with code 0
\* and has not cloned, branched, written, committed, pushed or opened a PR;
\* and a run is only ever skipped when the result holds a pull request that is
\* not CLOSED (and names the package and the version), wherever it stands
C10_PrGuard ==
  /\ ~run.no_pr /\ run.search = "ok" /\ ActivePrFor(run.prs) =>
       run.stage = "exit" /\ run.code = 0 /\ run.log = <<>>
  /\ run.stage = "exit" /\ run.code = 0 /\ run.log = <<>> =>
       \E i \in 1..Len(run.prs) :
         /\ run.prs[i].state # "CLOSED"
         /\ Contains(Lower(run.prs[i].title), Lower(PackageId))
         /\ Contains(run.prs[i].title, RunVersion)

\* a skipped run whose search result lists a CLOSED pull request for the
\* version before the MERGED one
C10_Witness ==
  /\ run.stage = "exit"
  /\ run.code = 0
  /\ run.log = <<>>
  /\ Len(run.prs) = 2
  /\ run.prs[1] = [title |-> TitleOf(PackageId, RunVersion), state |-> "CLOSED"]
  /\ run.prs[2] = [title |-> TitleOf(PackageId, RunVersion), state |-> "MERGED"]

\* ------------------------------------------------------------------ main: runs in sequence

MaxRuns == 3  \* runs of main for the one package and version

\* the first run of a sequence: the host holds no pull request for the version
InitRuns ==
  /\ run \in [stage : {"start"}, no_pr : BOOLEAN, fork_path : BOOLEAN, prs : {<<>>},
              search : {"none"}, log : {<<>>}, code : {-1},
              host : {<<>>}, runs : {1}, active : {FALSE}]
  /\ pc = "runs"
  /\ content = <<>>
  /\ prev = <<>>
  /\ orig = <<>>
  /\ req = <<>>
  /\ ver = NoVer

\* the pull requests of the host after a run: `gh pr create --title title` of a
\* run that created one adds an OPEN pull request with that title
HostAfter(r) ==
  IF Len(r.log) > 0 /\ r.log[Len(r.log)] = "pr"
  THEN Append(r.host, [title |-> TitleOf(PackageId, RunVersion), state |-> "OPEN"])
  ELSE r.host

\* what the maintainers of the host may do with a pull request between two runs
Reviewed(state) == IF state = "OPEN" THEN {"OPEN", "MERGED", "CLOSED"} ELSE {state}

\* main is started again for the same package and version: its PR search
\* lists the pull requests of the host
StartRun ==
  /\ pc = "runs"
  /\ run.stage = "exit"
  /\ run.runs < MaxRuns
  /\ \E no_pr \in BOOLEAN, fork_path \in BOOLEAN :
     \E host \in {h \in [1..Len(HostAfter(run)) -> [title : PrTitles, state : PrStates]] :
                    \A i \in DOMAIN h : /\ h[i].title = HostAfter(run)[i].title
                                        /\ h[i].state \in Reviewed(HostAfter(run)[i].state)} :
       run' = [stage |-> "start", no_pr |-> no_pr, fork_path |-> fork_path, prs |-> host,
               search |-> "none", log |-> <<>>, code |-> -1, host |-> host,
               runs |-> run.runs + 1,
               active |-> \E i \in DOMAIN host : host[i].state \in {"OPEN", "MERGED"}]
  /\ Frame

NextRuns ==
  \/ StartRun
  \/ GuardPr
  \/ ReadToken
  \/ CloneFork
  \/ CreateBranch
  \/ UpdateManifests
  \/ CommitAndPush
  \/ CreatePullRequest

SpecRuns == InitRuns /\ [][NextRuns]_vars

\* C11: the title a run gives its pull request is matched by check_existing_pr
\* for the same package and version, and a run started while the host holds an
\* OPEN or MERGED pull request made by an earlier run neither pushes nor
\* creates a pull request
C11_AsStated ==
  /\ TitleMatches([title |-> TitleOf(PackageId, RunVersion), state |-> "OPEN"],
                  PackageId, RunVersion)
  /\ run.active => \A i \in 1..Len(run.log) : run.log[i] \notin {"push", "pr"}

\* a later run whose PR search failed has pushed and created a second pull
\* request while the first one is still open
C11_SecondPr ==
  /\ run.active
  /\ ~run.no_pr
  /\ run.search = "failed"
  /\ run.host[1].state = "OPEN"
  /\ run.stage = "exit"
  /\ run.code = 0
  /\ run.log = <<"clone", "branch", "write", "commit", "push", "pr">>

\* ------------------------------------------------------------------ claims: ProductCode

\* line i lies under an AppsAndFeaturesEntries key: the key stands above it and
\* every line from there on is indented deeper, or is a list item at the
\* key's own indentation
UnderAppsAndFeatures(lines, i) ==
  \E j \in 1..(i - 1) :
    /\ Contains(lines[j], AppsAndFeaturesKey)
    /\ \A k \in (j + 1)..i :
         \/ IndentOf(lines[k]) > IndentOf(lines[j])
         \/ IndentOf(lines[k]) = IndentOf(lines[j]) /\ StartsWith(LStrip(lines[k]), <<"-">>)

\* the architecture of the installer block line i lies in, <<>> when it lies in none
BlockArchOf(lines, i) ==
  LET j == Greatest({k \in 1..i : ArchOfLine(lines[k]) # <<>>})
  IN  IF j = 0 THEN <<>>
      ELSE IF \E k \in 1..(j - 1) : lines[k] = <<"Installers", ":">>
              /\ \A l \in (k + 1)..i : Len(lines[l]) > 0 /\ lines[l][1] \in {" ", "-"}
      THEN ArchOfLine(lines[j])
      ELSE <<>>

\* the one context of a ProductCode line: the entries list, the installer
\* block of an architecture, or the top level above the installer list
ProductCodeContext(lines, i) ==
  IF UnderAppsAndFeatures(lines, i) THEN <<"entries">>
  ELSE IF BlockArchOf(lines, i) # <<>> THEN <<"block">> \o BlockArchOf(lines, i)
  ELSE IF IndentOf(lines[i]) = 0 /\ \A k \in 1..i : lines[k] # <<"Installers", ":">>
  THEN <<"top">>
  ELSE <<>>

\* the code a context is given, <<>> when product_codes holds none for it
CodeFor(ctx, codes) ==
  IF ctx = <<>> THEN <<>>
  ELSE IF ctx[1] = "block"
  THEN (IF Tail(ctx) \in DOMAIN codes THEN codes[Tail(ctx)] ELSE <<>>)
  ELSE (IF DefaultKey \in DOMAIN codes THEN codes[DefaultKey] ELSE <<>>)

\* the lines the claim describes: the first ProductCode line of a context is
\* rewritten with the context's code, every later one of the context is gone
DisambiguatedLine(lines, i, codes) ==
  LET ctx == ProductCodeContext(lines, i)
      code == CodeFor(ctx, codes)
  IN  IF ~Contains(lines[i], ProductCodeKey) \/ code = <<>> THEN <<lines[i]>>
      ELSE IF \E k \in 1..(i - 1) :
                Contains(lines[k], ProductCodeKey) /\ ProductCodeContext(lines, k) = ctx
      THEN <<>>
      ELSE <<Spaces(IndentOf(lines[i]))
             \o (IF ctx = <<"entries">> THEN <<"-", " ">> ELSE <<>>)
             \o ProductCodeKey \o <<" ">> \o Quoted(code)>>

Disambiguated(c, codes) ==
  LET lines == Split(c)
  IN  Join(Concat([i \in 1..Len(lines) |-> DisambiguatedLine(lines, i, codes)]))

\* C12: the ProductCode update rewrites the first ProductCode line of each of
\* the three contexts (entries list: "- ProductCode: '<default>'", installer
\* block of architecture A: "ProductCode: '<code of A>'", top level above
\* Installers: "ProductCode: '<default>'") and deletes the later ones of
\* the same context
C12_AsStated ==
  pc = "release_date" /\ DOMAIN req.product_codes # {} =>
    content = Disambiguated(prev, req.product_codes)

\* the x64 block's ProductCode line has come through the update unchanged
\* although the run extracted a code for x64
C12_BlockCodeKept ==
  /\ pc = "release_date"
  /\ X64 \in DOMAIN req.product_codes
  /\ Contains(prev, Fld(2, ProductCodeKey, Quoted(OldCode(X64))) \o <<"\n">>)
  /\ content = prev

\* ------------------------------------------------------------------ claims: ReleaseDate

\* the lines of a text that hold a field of the given name
FieldLinesOf(lines, name) ==
  {i \in 1..Len(lines) :
     ~IsComment(lines[i]) /\ ~InScalar(lines, i) /\ KeyOfLine(lines[i]) = <<name>>}

\* the value of a field line: what follows the first colon, stripped
ValueOfLine(line) == Strip(Drop(line, Find(line, <<":">>)))

\* C13: a manifest with a ReleaseDate field leaves update_manifest_content with
\* exactly one ReleaseDate field, on the line of the first one, whose value is
\* today's date; a manifest without a ReleaseDate field leaves it without one
C13_AsStated ==
  pc = "patched" =>
    LET before == FieldLinesOf(Split(orig), "ReleaseDate")
        after == FieldLinesOf(Split(content), "ReleaseDate")
    IN  IF before = {} THEN after = {}
        ELSE /\ after = {Least(before)}
             /\ ValueOfLine(Split(content)[Least(before)]) = req.today

\* a manifest whose only ReleaseDate field holds a quoted date has been patched
\* and still carries the template's date
C13_StaleDate ==
  /\ pc = "patched"
  /\ FieldLinesOf(Split(orig), "ReleaseDate") = {4}
  /\ Split(content)[4] = Fld(0, ReleaseDateKey, Quoted(Date1))
  /\ req.today # Date1

\* ------------------------------------------------------------------ claims: ReleaseNotes

\* the lines of the template's old notes
OldNotesText == {<<"old", " ", "text">>, <<"-", " ", "more">>}

\* C14: the ReleaseNotes step changes the text only when notes were supplied
\* and the template holds a ReleaseNotes field; and then, whatever form the
\* field had (one line, '|-' block, '|' block), the output of
\* update_manifest_content holds exactly one ReleaseNotes field, which reads
\* back as the supplied notes, and no line of the old notes
C14_AsStated ==
  LET gate == req.release_notes # <<>> /\ FieldLinesOf(Split(orig), "ReleaseNotes") # {}
  IN  /\ pc = "release_notes_url" /\ ~gate => content = prev
      /\ pc = "patched" /\ gate =>
           /\ Cardinality(FieldLinesOf(Split(content), "ReleaseNotes")) = 1
           /\ ReadNotes(content) = Chomp(Normalized(req.release_notes))
           /\ \A i \in 1..Len(Split(content)) : Strip(Split(content)[i]) \notin OldNotesText

\* a template with a 'ReleaseNotes: |' block has been patched with the notes
\* '- item': the new block reads back as the new notes followed by the old ones
C14_OldNotesKept ==
  /\ pc = "patched"
  /\ Contains(orig, ReleaseNotesKey \o <<" ", "|", "\n">>)
  /\ req.release_notes = <<"-", " ", "item">>
  /\ ReadNotes(content) = <<"-", " ", "item", "\n", "old", " ", "text", "\n", "-", " ", "more">>

\* ------------------------------------------------------------------ update_manifests: fetch

MaxArchs == 3  \* architectures of installer_urls

\* update_manifests is entered: with installer_urls (multi, n architectures, in
\* the order of the map) or with the one installer_url; ext is the suffix the
\* URLs end in; the temporary files are named by the index of their architecture
InitFetch ==
  /\ run \in {r \in [stage : {"loop"}, phase : {"fetch"}, multi : BOOLEAN, n : 1..MaxArchs,
                     ext : {"msi", "msix", "exe"}, i : {1}, tmp : {{}}, made : {{}},
                     tried : {{}}, failed : {{}}, hashes : {{}}, extracted : {{}},
                     written : {FALSE}, result : {"none"}, code : {-1}] :
                r.multi \/ r.n = 1}
  /\ pc = "fetch"
  /\ content = <<>>
  /\ prev = <<>>
  /\ orig = <<>>
  /\ req = <<>>
  /\ ver = NoVer

\* `return value` of update_manifests; main leaves with code 1 when it is False
Return(r, value) ==
  [r EXCEPT !.stage = "returned", !.result = value,
            !.code = IF value = "False" THEN 1 ELSE @]

\* finally: if os.path.exists(tmp_path): os.unlink(tmp_path)
FinallyTight(r, raised) == IF raised THEN r ELSE [r EXCEPT !.tmp = @ \ {r.i}]
Finally(r, raised) == [r EXCEPT !.tmp = @ \ {r.i}]

\* the architecture is done with: the loop goes on, or the one installer is fetched
Fetched(r) ==
  IF r.multi THEN [r EXCEPT !.stage = "loop", !.i = @ + 1]
  ELSE [r EXCEPT !.stage = "dirs", !.phase = "manifests"]

\* a download failure or an exception: `continue` in the loop, `return False`
\* for the one installer
GiveUpOnError(r) == Return(r, "False")
OnFetchError(r) == IF r.multi THEN Fetched(r) ELSE Return(r, "False")

\* with tempfile.NamedTemporaryFile(delete=False, suffix=file_ext)
CreateTemp ==
  /\ pc = "fetch"
  /\ run.stage = "loop"
  /\ run.i <= run.n
  /\ run' = [run EXCEPT !.stage = "download", !.tmp = @ \cup {run.i}, !.made = @ \cup {run.i}]
  /\ Frame

\* download_file: False on any request error and on an empty file; the loop
\* unlinks the file and continues
Download ==
  /\ pc = "fetch"
  /\ run.stage = "download"
  /\ \E ok \in BOOLEAN :
       LET r == [run EXCEPT !.tried = @ \cup {run.i}]
       IN  run' = IF ok THEN [r EXCEPT !.stage = "hash"]
                  ELSE LET unlinked == IF r.multi THEN [r EXCEPT !.tmp = @ \ {r.i}] ELSE r
                       IN  OnFetchError(Finally([unlinked EXCEPT !.failed = @ \cup {r.i}], FALSE))
  /\ Frame

\* calculate_sha256 raises on a missing or empty file and on a short read
Hash ==
  /\ pc = "fetch"
  /\ run.stage = "hash"
  /\ \E ok \in BOOLEAN :
       run' = IF ~ok
              THEN OnFetchError(Finally([run EXCEPT !.failed = @ \cup {run.i}], TRUE))
              ELSE LET r == [run EXCEPT !.hashes = @ \cup {run.i}]
                   IN  IF r.ext = "msi" \/ (~r.multi /\ r.ext = "msix")
                       THEN [r EXCEPT !.stage = "extract"]
                       ELSE Fetched(Finally(r, FALSE))
  /\ Frame

\* extract_product_code_from_msi, calculate_msix_signature_sha256: a value or
\* None, never an exception
Extract ==
  /\ pc = "fetch"
  /\ run.stage = "extract"
  /\ \E found \in BOOLEAN :
       run' = Fetched(Finally(IF found THEN [run EXCEPT !.extracted = @ \cup {run.i}] ELSE run,
                              FALSE))
  /\ Frame

\* if not arch_hashes: return False
LoopDone ==
  /\ pc = "fetch"
  /\ run.stage = "loop"
  /\ run.i > run.n
  /\ run' = IF run.hashes = {} THEN Return(run, "False")
            ELSE [run EXCEPT !.stage = "dirs", !.phase = "manifests"]
  /\ Frame

\* the version directory exists already, the manifest path is missing, or no
\* version and no template is found: return False
CheckDirs ==
  /\ pc = "fetch"
  /\ run.stage = "dirs"
  /\ \E found \in {"version exists", "no manifest path", "no template", "template"} :
       run' = IF found = "template" THEN [run EXCEPT !.stage = "process"]
              ELSE Return(run, "False")
  /\ Frame

\* process_template_and_create_version: True, or False after an exception
\* before or after the first file was written
ProcessTemplate ==
  /\ pc = "fetch"
  /\ run.stage = "process"
  /\ \E out \in {"ok", "error", "error after write"} :
       run' = Return([run EXCEPT !.written = out # "error"],
                     IF out = "ok" THEN "True" ELSE "False")
  /\ Frame

NextFetch ==
  \/ CreateTemp
  \/ Download
  \/ Hash
  \/ Extract
  \/ LoopDone
  \/ CheckDirs
  \/ ProcessTemplate

SpecFetch == InitFetch /\ [][NextFetch]_vars

\* ------------------------------------------------------------------ claims: fetch

\* update_manifests has returned False out of the fetch phase
FetchFailed == run.stage = "returned" /\ run.phase = "fetch" /\ run.result = "False"

\* C15 as stated: in a multi-architecture run a failed architecture is skipped
\* and the others are still fetched, and update_manifests returns False if and
\* only if no architecture produced a hash, without having written a file
C15_AsStated ==
  pc = "fetch" /\ run.multi /\ run.stage = "returned" =>
    /\ run.tried = 1..run.n
    /\ run.hashes = run.tried \ run.failed
    /\ run.result = "False" <=> run.hashes = {}
    /\ run.hashes = {} => ~run.written

\* C15: in a multi-architecture run every architecture is tried whatever
\* happened to the others, the hashes are those of the architectures that did
\* not fail, the fetch phase returns False (exit code 1) exactly when there is
\* no hash, and then no file is written
C15_FetchRecovery ==
  pc = "fetch" /\ run.multi =>
    /\ run.phase = "manifests" \/ run.stage = "returned" =>
         /\ run.tried = 1..run.n
         /\ run.hashes = run.tried \ run.failed
    /\ run.phase = "manifests" => run.hashes # {}
    /\ FetchFailed => run.hashes = {} /\ ~run.written /\ run.code = 1
    /\ run.stage = "returned" /\ run.hashes = {} => FetchFailed

\* a run of three architectures whose first download failed and whose second
\* hashing raised has written the manifests with the hash of the third
C15_Witness ==
  /\ pc = "fetch"
  /\ run.multi
  /\ run.n = 3
  /\ run.failed = {1, 2}
  /\ run.hashes = {3}
  /\ run.result = "True"
  /\ run.written

\* C16: outside the download, hashing and extraction of an architecture no
\* temporary installer file exists: none when the loop goes on to the next
\* architecture, none when the fetch phase is left, none after
\* update_manifests has returned; inside, only the file of the architecture
\* at hand exists
C16_TempFiles ==
  pc = "fetch" =>
    /\ run.stage \in {"loop", "dirs", "process", "returned"} => run.tmp = {}
    /\ run.tmp \subseteq {run.i}

\* update_manifests has returned after three architectures, each with a
\* temporary file of its own, went through a failed download, a hashing error
\* and a success
C16_Witness ==
  /\ pc = "fetch"
  /\ run.stage = "returned"
  /\ run.made = {1, 2, 3}
  /\ run.tried \ run.failed = run.hashes
  /\ Cardinality(run.failed) = 2
  /\ run.hashes # {}
  /\ run.tmp = {}

\* ------------------------------------------------------------------ claims: fatal errors

\* the steps of a run in the order of main; a run on --fork-path only writes
StepsOf(r) ==
  IF r.fork_path THEN <<"write">>
  ELSE <<"clone", "branch", "write", "commit", "push", "pr">>

\* C17: every step of a run starts from a run that has not exited, and either
\* it is the PR guard or the reading of the token, or it completes the next
\* steps in the order clone, branch, write, commit, push, pr, or it fails: the
\* run exits with code 1 having completed nothing more (a failed push leaves
\* the commit made); so nothing runs after a failed clone, manifest update,
\* push or PR creation
C17_FatalErrors ==
  [][pc = "run" =>
       /\ run.stage # "exit"
       /\ \/ run.stage \in {"start", "env"} /\ run'.log = run.log
          \/ /\ run'.log # run.log
             /\ StartsWith(run'.log, run.log)
             /\ StartsWith(StepsOf(run), run'.log)
             /\ run'.code # 1
          \/ /\ run'.stage = "exit"
             /\ run'.code = 1
             /\ StartsWith(StepsOf(run), run'.log)
             /\ run'.log = run.log \/ (run.stage = "commit" /\ run'.log = Append(run.log, "commit"))]_vars

\* a run whose push failed: it has exited with code 1 after the commit, and
\* has created no pull request
C17_Witness ==
  /\ pc = "run"
  /\ ~run.no_pr
  /\ run.stage = "exit"
  /\ run.code = 1
  /\ run.log = <<"clone", "branch", "write", "commit">>

\* ------------------------------------------------------------------ check_version

\* the checkver configurations: packageIdentifier present or not, the type of
\* checkver, the keys its strategy needs (repo; script and regex) present or
\* not, checkUrl, an installerUrlTemplate with the placeholder {build} or
\* without, releaseNotes / releaseNotesUrl of the configuration
Configs ==
  [id : BOOLEAN, type : {"github", "script", "none"}, keys : BOOLEAN, checkUrl : BOOLEAN,
   placeholder : BOOLEAN, info : SUBSET {"releaseNotes", "releaseNotesUrl"}]

\* check_version is entered by main of check_version.py; GITHUB_OUTPUT is set,
\* as under GitHub Actions; `upstream` tells how the version the strategies
\* resolve stands in the manifest repository: absent, present under the same
\* name, or under a name that is semantically equal (1.3 and 1.3.0)
InitCheck ==
  /\ run \in [stage : {"start"}, cfg : Configs, upstream : {"absent", "same", "equal"}, calls : {<<>>}, latest : {""}, by : {"none"},
              metadata : {{}}, metadata_by : {"none"}, failures : {{}},
              result : {"pending"}, release_info : {{}}, release : {{}}, cause : {"none"}, has_update : {"unset"}, code : {-1}]
  /\ pc = "check"
  /\ content = <<>>
  /\ prev = <<>>
  /\ orig = <<>>
  /\ req = <<>>
  /\ ver = NoVer

\* an exception nothing catches: the interpreter prints the traceback and
\* leaves with code 1; GITHUB_OUTPUT is not written
Raise(r, cause) == [r EXCEPT !.stage = "done", !.result = "raised", !.cause = cause, !.code = 1]

\* package_id = checkver_config['packageIdentifier']
LoadConfig ==
  /\ pc = "check"
  /\ run.stage = "start"
  /\ run' = IF run.cfg.id THEN [run EXCEPT !.stage = "github"]
            ELSE Raise([run EXCEPT !.failures = @ \cup {"missing key"}], "packageIdentifier")
  /\ Frame

\* what a strategy returned: None (version = "none"), or the tuple
\* (version, metadata), whose version may be the empty string
NoResult == [version |-> "none", metadata |-> {}]

\* latest_version, metadata = version_result
Unpacked(r, res, strategy) ==
  IF res = NoResult THEN r
  ELSE [r EXCEPT !.latest = res.version, !.by = strategy,
                 !.metadata = res.metadata, !.metadata_by = strategy]

\* get_latest_version_github: None when the configuration is not a GitHub one,
\* when repo is missing, on a request error and on a status other than 200;
\* when the regex does not match the tag, the tag without its leading 'v's is
\* the version (it may be empty)
TryGithub ==
  /\ pc = "check"
  /\ run.stage = "github"
  /\ \E out \in {"network error", "status", "no match", "empty tag", "version"} :
     \E md \in SUBSET {"releasenotes", "releasenotesurl"} :
       LET called == [run EXCEPT !.calls = Append(@, "github")]
           failed(f) == [called EXCEPT !.failures = @ \cup {f}, !.stage = "script"]
       IN  run' = IF run.cfg.type # "github" THEN [called EXCEPT !.stage = "script"]
                  ELSE IF ~run.cfg.keys THEN failed("missing key")
                  ELSE IF out \in {"network error", "status"} THEN failed(out)
                  ELSE IF out = "no match"
                  THEN Unpacked([called EXCEPT !.failures = @ \cup {"no match"}, !.stage = "web"],
                                [version |-> "nightly", metadata |-> md], "github")
                  ELSE IF out = "empty tag"
                  THEN Unpacked([called EXCEPT !.failures = @ \cup {"no match"}, !.stage = "web"],
                                [version |-> "", metadata |-> md], "github")
                  ELSE Unpacked([called EXCEPT !.stage = "web"],
                                [version |-> "1.3", metadata |-> md], "github")
  /\ Frame

\* if not version_result: get_latest_version_script: None when the type is
\* not 'script', when script or regex is missing, when the script gives no
\* output and when the regex does not match; else the version (first group or
\* replace pattern, possibly empty) and the named groups
TryScript ==
  /\ pc = "check"
  /\ run.stage = "script"
  /\ \E out \in {"no output", "no match", "empty group", "version"} :
     \E md \in SUBSET {"build"} :
       LET called == [run EXCEPT !.calls = Append(@, "script"), !.stage = "web"]
           failed(f) == [called EXCEPT !.failures = @ \cup {f}]
       IN  run' = IF run.cfg.type # "script" THEN called
                  ELSE IF ~run.cfg.keys THEN failed("missing key")
                  ELSE IF out \in {"no output", "no match"} THEN failed(out)
                  ELSE Unpacked(called,
                                [version |-> IF out = "version" THEN "1.3" ELSE "",
                                 metadata |-> md], "script")
  /\ Frame

\* if not latest_version and 'checkUrl' in checkver_config:
\* get_latest_version_from_web (None on an error and when no version is in
\* the page); then if not latest_version: return None
TryWeb ==
  /\ pc = "check"
  /\ run.stage = "web"
  /\ \E out \in {"network error", "no match", "version"} :
       LET asked == run.latest = "" /\ run.cfg.checkUrl
           called == IF asked THEN [run EXCEPT !.calls = Append(@, "web")] ELSE run
           got == IF ~asked THEN called
                  ELSE IF out = "version" THEN [called EXCEPT !.latest = "1.3", !.by = "web"]
                  ELSE [called EXCEPT !.failures = @ \cup {out}]
       IN  run' = IF got.latest = "" THEN [got EXCEPT !.stage = "report", !.result = "none"]
                  ELSE [got EXCEPT !.stage = "urls"]
  /\ Frame

\* the placeholders get_installer_url can fill: version, versionShort and the
\* keys of the metadata
Placeholders(r) == {"version", "versionShort"} \cup r.metadata

\* get_installer_url: template.format(**replacements) raises KeyError for a
\* placeholder that has no value
InstallerUrls ==
  /\ pc = "check"
  /\ run.stage = "urls"
  /\ run' = IF run.cfg.placeholder /\ "build" \notin Placeholders(run)
            THEN Raise([run EXCEPT !.failures = @ \cup {"placeholder"}], "placeholder")
            ELSE [run EXCEPT !.stage = "info"]
  /\ Frame

\* get_release_info_from_config: the keys of the release information, from
\* the metadata first and from the configuration otherwise
ReleaseInfoKeys(r) ==
  {k \in {"releaseNotes"} : "releasenotes" \in r.metadata \/ k \in r.cfg.info}
    \cup {k \in {"releaseNotesUrl"} : "releasenotesurl" \in r.metadata \/ k \in r.cfg.info}

\* the release information and the result: get_github_release_info gives
\* both keys or None (always None when the script names no GitHub API URL),
\* get_release_info_from_config is asked otherwise; result['releaseNotes']
\* and result['releaseNotesUrl'] are both read when release_info is not empty
ReleaseInfo ==
  /\ pc = "check"
  /\ run.stage = "info"
  /\ \E github_info \in {FALSE} \cup {b \in {TRUE} : run.cfg.type = "script" /\ run.cfg.keys} :
       LET keys == IF github_info THEN {"releaseNotes", "releaseNotesUrl"}
                   ELSE ReleaseInfoKeys(run)
           got == [run EXCEPT !.release_info = keys]
       IN  run' = IF keys # {} /\ keys # {"releaseNotes", "releaseNotesUrl"}
                  THEN Raise(got, "release info")
                  ELSE [got EXCEPT !.stage = "report", !.result = "record", !.release = keys]
  /\ Frame

\* main of check_version.py: has_update=true with the version for a result,
\* has_update=false and sys.exit(0) for None
Report ==
  /\ pc = "check"
  /\ run.stage = "report"
  /\ run' = [run EXCEPT !.stage = "done", !.code = 0,
                        !.has_update = IF run.result = "record" THEN "true" ELSE "false"]
  /\ Frame

NextCheck == LoadConfig \/ TryGithub \/ TryScript \/ TryWeb \/ InstallerUrls \/ ReleaseInfo \/ Report

SpecCheck == InitCheck /\ [][NextCheck]_vars

\* ------------------------------------------------------------------ claims: check_version

\* a strategy's regex matched and gave a version
Resolved(r) == r.latest = "1.3"

\* the strategies whose turn comes after the strategy s under the
\* configuration of r: the script strategy when the type is 'script', the
\* web page when checkUrl is given
ApplicableAfter(r, s) ==
  {t \in {"script"} : s = "github" /\ r.cfg.type = "script"}
    \cup {t \in {"web"} : s \in {"github", "script"} /\ r.cfg.checkUrl}

Called(r) == {r.calls[i] : i \in DOMAIN r.calls}

\* C18 (as stated): no failure of version resolution or URL construction
\* raises: a missing configuration key and a URL placeholder without a value
\* do not end the stage by an exception, and a run in which no strategy's
\* regex gave a version returns None, writes has_update=false and exits 0
C18_AsStated ==
  (pc = "check" /\ run.stage = "done") =>
    /\ run.cause \notin {"packageIdentifier", "placeholder"}
    /\ (~Resolved(run) /\ run.result # "raised") =>
         (run.result = "none" /\ run.has_update = "false" /\ run.code = 0)

\* C18: a run that a URL placeholder without a value ended with code 1 and
\* no has_update
C18_Raised ==
  /\ pc = "check"
  /\ run.stage = "done"
  /\ run.cause = "placeholder"
  /\ run.code = 1
  /\ run.has_update = "unset"

\* C19 (as stated): when the resolved version already exists in the manifest
\* repository, under the same name or a semantically equal one, has_update is
\* not set to true and the stage exits 0
C19_AsStated ==
  (pc = "check" /\ run.stage = "done" /\ run.upstream # "absent" /\ run.latest # "") =>
    (run.has_update # "true" /\ run.code = 0)

\* C19: has_update=true for a version the manifest repository already has
C19_UpdateReported ==
  /\ pc = "check"
  /\ run.stage = "done"
  /\ run.upstream = "equal"
  /\ Resolved(run)
  /\ run.has_update = "true"

\* C20 (as stated): the strategies are called in the order github, script,
\* web, the web page only with a checkUrl; the version and the metadata are
\* those of the first strategy that yields a version and no strategy is
\* called after it; a strategy that yields none is followed by the next
\* applicable one; None is returned only when every applicable strategy was
\* called and none yielded
C20_AsStated ==
  (pc = "check" /\ run.stage \in {"urls", "info", "report", "done"} /\ run.cfg.id) =>
    /\ run.calls \in {<<"github">>, <<"github", "script">>, <<"github", "web">>,
                      <<"github", "script", "web">>}
    /\ "web" \in Called(run) => run.cfg.checkUrl
    /\ run.latest # "" =>
         /\ run.by = run.calls[Len(run.calls)]
         /\ run.metadata_by \in {run.by, "none"}
         /\ run.metadata_by = "none" => run.metadata = {}
    /\ run.latest = "" =>
         \A s \in Called(run) : ApplicableAfter(run, s) \subseteq Called(run)
    /\ run.result = "none" =>
         /\ run.latest = ""
         /\ {"github"} \cup ApplicableAfter(run, "github") \subseteq Called(run)

\* C20: the version of the web page with the metadata of the GitHub release
C20_ForeignMetadata ==
  /\ pc = "check"
  /\ run.stage = "done"
  /\ run.result = "record"
  /\ run.by = "web"
  /\ run.metadata_by = "github"
  /\ run.metadata # {}

\* C30 (as stated): once a version and the installer URL are resolved,
\* check_version returns a result for every combination of release
\* information, with releaseNotes and releaseNotesUrl each in the result
\* exactly when it is available, and does not raise because one is missing
C30_AsStated ==
  (pc = "check" /\ run.stage = "done" /\ run.latest # ""
     /\ run.cause \notin {"packageIdentifier", "placeholder"}) =>
    /\ run.result = "record"
    /\ run.release = run.release_info

\* C30: the only release information is releaseNotes, and check_version
\* raised on the missing releaseNotesUrl
C30_Raised ==
  /\ pc = "check"
  /\ run.stage = "done"
  /\ run.release_info = {"releaseNotes"}
  /\ run.result = "raised"
  /\ run.cause = "release info"
  /\ run.code = 1

\* ------------------------------------------------------------------ claims: --no-pr

InLog(r, what) == \E i \in 1..Len(r.log) : r.log[i] = what

\* C23 (as stated): a run with --no-pr, with or without --fork-path, pushes
\* no branch to the fork and creates no pull request
C23_AsStated ==
  (pc = "run" /\ run.no_pr) => (~InLog(run, "push") /\ ~InLog(run, "pr"))

\* C23: a finished run with --no-pr and without --fork-path that pushed its
\* branch
C23_Pushed ==
  /\ pc = "run"
  /\ run.no_pr
  /\ ~run.fork_path
  /\ run.stage = "exit"
  /\ run.code = 0
  /\ InLog(run, "push")
  /\ ~InLog(run, "pr")

\* ------------------------------------------------------------------ claims: version forms

\* p stands in s as a version of its own: no digit or dot next to it
OccursAsVersion(s, p) ==
  \E i \in 1..(Len(s) - Len(p) + 1) :
    /\ SubSeq(s, i, i + Len(p) - 1) = p
    /\ i = 1 \/ ~IsVerChar(s[i - 1])
    /\ i + Len(p) > Len(s) \/ ~IsVerChar(s[i + Len(p)])

\* C25 (as stated): after the version step, when the old and the new version
\* differ and both end in '.0', the old short form stands nowhere as a
\* version and every new version the full substitution wrote is still there;
\* when one of them does not end in '.0', the text is that of the full
\* substitution alone
C25_AsStated ==
  (pc = "url" /\ OldVersion(orig) # <<>> /\ OldVersion(orig) # req.version) =>
    LET old == OldVersion(orig)
        full == StrReplace(orig, old, req.version)
    IN  IF EndsWithDotZero(old) /\ EndsWithDotZero(req.version)
        THEN /\ ~OccursAsVersion(content, Take(old, Len(old) - 2))
             /\ StrCount(content, req.version) = StrCount(full, req.version)
        ELSE content = full

\* C25: the step from 1.0.0 to 1.1.0 has left PackageVersion: 1.1.1
C25_VersionCorrupted ==
  /\ pc = "url"
  /\ OldVersion(orig) = V100
  /\ req.version = V110
  /\ Contains(content, <<"PackageVersion", ":", " ", "1", ".", "1", ".", "1">>)
  /\ ~Contains(content, V110)

\* the value of a PackageVersion field without its quotes
Unquoted(value) ==
  IF Len(value) >= 2 /\ value[1] \in {"'", "\""} /\ value[Len(value)] = value[1]
  THEN SubSeq(value, 2, Len(value) - 1)
  ELSE value

\* C28 (as stated): the PackageVersion field of a patched manifest holds
\* exactly the new version, whatever the form of the old value
C28_AsStated ==
  pc = "patched" =>
    \A i \in FieldLinesOf(Split(orig), "PackageVersion") :
      /\ i \in FieldLinesOf(Split(content), "PackageVersion")
      /\ Unquoted(ValueOfLine(Split(content)[i])) = req.version

\* C28: a patched manifest whose quoted PackageVersion is still the old one
C28_OldVersionKept ==
  /\ pc = "patched"
  /\ Split(orig)[2] = Fld(0, <<"PackageVersion", ":">>, WrittenVersion("single", V12))
  /\ Split(content)[2] = Split(orig)[2]
  /\ req.version = V13

\* ------------------------------------------------------------------ claims: cleanup

IsListStart(line) == StartsWith(LStrip(line), <<"-", " ">>)

\* the column of the key of a field line
KeyColumn(line) == IndentOf(line) + (IF IsListStart(line) THEN 2 ELSE 0)

IsFieldLine(lines, i) ==
  ~IsComment(lines[i]) /\ ~InScalar(lines, i) /\ KeyOfLine(lines[i]) # <<>>

\* the field lines h < i are keys of one mapping: the same key column, i does
\* not open a list item, and between them no line stands left of that column
\* and no list item opens at it
SameMapping(lines, h, i) ==
  /\ KeyColumn(lines[h]) = KeyColumn(lines[i])
  /\ \A k \in (h + 1)..i :
       (Strip(lines[k]) # <<>> /\ ~IsComment(lines[k])) =>
         /\ KeyColumn(lines[k]) >= KeyColumn(lines[h])
         /\ ~(IsListStart(lines[k]) /\ KeyColumn(lines[k]) = KeyColumn(lines[h]))

\* the lines that repeat a key of their own mapping
ActualDuplicates(lines) ==
  {i \in 1..Len(lines) :
     /\ IsFieldLine(lines, i)
     /\ \E h \in 1..(i - 1) :
          /\ IsFieldLine(lines, h)
          /\ KeyOfLine(lines[h]) = KeyOfLine(lines[i])
          /\ SameMapping(lines, h, i)}

\* C24 (as stated): the cleanup pass deletes only lines that repeat a key of
\* their own mapping; every list item and every key of every item is kept
C24_AsStated ==
  pc = "patched" =>
    LET lines == Split(prev)
    IN  \E gone \in SUBSET ActualDuplicates(lines) :
          content = CollapseBlank(Join(Survivors(lines, gone, LAMBDA i : lines[i])))

\* C24: a text in which no line repeats a key of its mapping has lost the
\* second item of a NestedInstallerFiles list in the cleanup pass
C24_ItemDeleted ==
  /\ pc = "patched"
  /\ ActualDuplicates(Split(prev)) = {}
  /\ Cardinality(FieldAt(Split(prev), <<"-", " ", "RelativeFilePath", ":">>)) = 2
  /\ Cardinality(FieldAt(Split(content), <<"-", " ", "RelativeFilePath", ":">>)) = 1

\* ------------------------------------------------------------------ claims: blocks of one architecture

\* two blocks of the list name the same architecture, and the run has a URL
\* or a hash for it
SameArchBlocks(lines) ==
  \E m, n \in 1..Cardinality(ArchLines(lines)) :
    /\ m < n
    /\ ArchOfLine(lines[NthArchLine(lines, m)]) = ArchOfLine(lines[NthArchLine(lines, n)])
    /\ ArchOfLine(lines[NthArchLine(lines, m)])
         \in (DOMAIN req.installer_urls \cup DOMAIN req.arch_hashes)

\* C27 (as stated): a well-formed installer list with two blocks of the same
\* architecture leaves the multi-architecture URL and hash updates, and the
\* whole of update_manifest_content, with exactly one InstallerUrl line and
\* exactly one InstallerSha256 line in every block
C27_AsStated ==
  (pc \in {"signature", "patched"} /\ WellFormed(Split(orig)) /\ SameArchBlocks(Split(orig))) =>
    \A n \in 1..Cardinality(ArchLines(Split(content))) :
      /\ Cardinality(FieldAt(BlockLines(Split(content), n), InstallerUrlKey)) = 1
      /\ Cardinality(FieldAt(BlockLines(Split(content), n), InstallerSha256Key)) = 1

\* C27: two plain x64 blocks have gone through the URL and hash updates, and
\* the second is left with neither an InstallerUrl nor an InstallerSha256 line
C27_BlockEmptied ==
  /\ pc = "signature"
  /\ WellFormed(Split(orig))
  /\ SameArchBlocks(Split(orig))
  /\ Cardinality(ArchLines(Split(content))) >= 2
  /\ ArchOfLine(BlockLines(Split(content), 2)[1]) = X64
  /\ FieldAt(BlockLines(Split(content), 2), InstallerUrlKey) = {}
  /\ FieldAt(BlockLines(Split(content), 2), InstallerSha256Key) = {}
  /\ Cardinality(FieldAt(BlockLines(Split(orig), 2), InstallerUrlKey)) = 1

\* ------------------------------------------------------------------ claims: ProductCode under nested sections

\* an architecture block of the text holds an AppsAndFeaturesEntries section
NestedAppsAndFeatures(lines) ==
  \E i \in 1..Len(lines) :
    Contains(lines[i], AppsAndFeaturesKey) /\ IndentOf(lines[i]) > 0 /\ BlockArchOf(lines, i) # <<>>

\* the offsets of the ProductCode lines that are fields of the n-th block itself
BlockCodeLines(lines, n) ==
  {i \in NthArchLine(lines, n)..BlockLast(lines, n) :
     /\ Contains(lines[i], ProductCodeKey)
     /\ ProductCodeContext(lines, i) = <<"block">> \o ArchOfLine(lines[NthArchLine(lines, n)])}

\* C29 (as stated): in a multi-architecture manifest with an
\* AppsAndFeaturesEntries section inside an architecture block, the
\* ProductCode step leaves every block whose architecture A is a key of
\* product_codes, and that has a ProductCode field, with ProductCode:
\* '<product_codes[A]>'
C29_AsStated ==
  (pc = "release_date" /\ NestedAppsAndFeatures(Split(prev))) =>
    \A n \in 1..Cardinality(ArchLines(Split(prev))) :
      LET lines == Split(prev)
          a == ArchOfLine(lines[NthArchLine(lines, n)])
      IN  (a \in DOMAIN req.product_codes /\ BlockCodeLines(lines, n) # {}) =>
            \E i \in BlockCodeLines(Split(content), n) :
              Split(content)[i]
                = Fld(IndentOf(Split(content)[i]), ProductCodeKey, Quoted(req.product_codes[a]))

\* C29: the x64 block holds an AppsAndFeaturesEntries section, the run has a
\* code for x86, and the ProductCode of the x86 block after it is the old one
C29_LaterBlockKept ==
  /\ pc = "release_date"
  /\ NestedAppsAndFeatures(Split(prev))
  /\ X86 \in DOMAIN req.product_codes
  /\ Cardinality(ArchLines(Split(content))) = 2
  /\ \E i \in BlockCodeLines(Split(content), 2) :
       Split(content)[i] = Fld(2, ProductCodeKey, Quoted(OldCode(X86)))

\* ------------------------------------------------------------------ claims: URL and hash of a block

\* block b carries an InstallerUrl line with this run's URL of its architecture a
HasRunUrl(b, a) ==
  /\ a \in DOMAIN req.installer_urls
  /\ \E i \in FieldAt(b, InstallerUrlKey) :
       b[i] = FieldLine(IndentOf(b[i]), InstallerUrlKey, req.installer_urls[a])

\* block b carries an InstallerSha256 line, and none but the hash this run
\* computed for its architecture a
HasRunHash(b, a) ==
  /\ a \in DOMAIN req.arch_hashes
  /\ FieldAt(b, InstallerSha256Key) # {}
  /\ \A i \in FieldAt(b, InstallerSha256Key) :
       b[i] = FieldLine(IndentOf(b[i]), InstallerSha256Key, req.arch_hashes[a])

\* C26 (as stated): in an installer manifest written by a multi-architecture
\* run, every block that carries this run's InstallerUrl carries the
\* InstallerSha256 this run computed for the block's architecture
C26_AsStated ==
  (pc = "written" /\ req.kind = "installer" /\ DOMAIN req.installer_urls # {}) =>
    \A n \in 1..Cardinality(ArchLines(Split(content))) :
      LET b == BlockLines(Split(content), n)
      IN  HasRunUrl(b, ArchOfLine(b[1])) => HasRunHash(b, ArchOfLine(b[1]))

\* C26: the download of x86 failed and that of x64 succeeded; the x86 block
\* is written with the new URL next to the hash of the previous version
C26_StaleHash ==
  /\ pc = "written"
  /\ X64 \in DOMAIN req.arch_hashes
  /\ X86 \in DOMAIN req.installer_urls
  /\ X86 \notin DOMAIN req.arch_hashes
  /\ req.version # OldVersion(orig)
  /\ \E n \in 1..Cardinality(ArchLines(Split(content))) :
       LET b == BlockLines(Split(content), n)
       IN  /\ ArchOfLine(b[1]) = X86
           /\ HasRunUrl(b, X86)
           /\ \E i \in FieldAt(b, InstallerSha256Key) :
                b[i] = FieldLine(2, InstallerSha256Key, OwnHash(X86))

\* ------------------------------------------------------------------ update_manifests: the template

MaxDirs == 2  \* directories under the manifest path of the package

\* names of directories under the manifest path: dotted and hyphenated
\* versions, one with a part that is not a number
DirNames ==
  {<<"1", ".", "9">>, <<"1", ".", "1", "0">>, <<"1", ".", "9", ".", "1">>,
   <<"1", ".", "1", "0", "-", "rc">>,
   <<"2", "0", "2", "5", ".", "9", ".", "3", "0">>,
   <<"2", "0", "2", "5", ".", "1", "0", ".", "1", "3">>,
   <<"2", "0", "2", "5", "-", "0", "9", "-", "1", "6">>}

TemplateVersion == <<"1", ".", "0">>
TemplateFiles == {"installer", "locale"}

\* update_manifests has the hashes, the manifest path exists and the directory
\* of the new version does not; `dirs` is os.listdir in its order, `pinned`
\* says that the package's checkver file is found and names templateCommit
\* and templateVersion
InitTemplate ==
  /\ run \in [stage : {"list"},
              dirs : UNION {{d \in [1..n -> DirNames] : \A i, j \in 1..n : i # j => d[i] # d[j]} :
                            n \in 0..MaxDirs},
              pinned : BOOLEAN, template : {<<>>}, template_in : {"none"},
              writes : {{}}, temp_dirs : {0}, result : {"none"}]
  /\ pc = "template"
  /\ content = <<>>
  /\ prev = <<>>
  /\ orig = <<>>
  /\ req = <<>>
  /\ ver = NoVer

\* a key that compares the digits one by one, as strings compare
DigitwiseKey(v) == [i \in 1..Len(v) |-> IF v[i] \in Digits THEN IntOf(<<v[i]>>) ELSE -1]

\* version_sort_key: the parts between dots and hyphens as numbers, 0 for a
\* part that int() does not take
VersionSortKey(v) ==
  [i \in 1..Len(PartsOf(v)) |->
     LET x == PartsOf(v)[i]
     IN  IF x # <<>> /\ \A k \in 1..Len(x) : x[k] \in Digits THEN IntOf(x) ELSE 0]

\* versions.sort(key=version_sort_key); versions[-1]: the sort is stable, so
\* of the names with the greatest key the last one listed comes last
LatestVersion(versions) ==
  versions[Greatest({i \in 1..Len(versions) :
                       \A j \in 1..Len(versions) :
                         CmpSeq(VersionSortKey(versions[j]), VersionSortKey(versions[i])) <= 0})]

\* versions = [d for d in os.listdir(manifest_base) if isdir]; with versions
\* the latest one is the template, in place
ListVersions ==
  /\ pc = "template"
  /\ run.stage = "list"
  /\ run' = IF run.dirs = <<>> THEN [run EXCEPT !.stage = "config"]
            ELSE [run EXCEPT !.stage = "process", !.template = LatestVersion(run.dirs),
                             !.template_in = "repo"]
  /\ Frame

\* without versions: the checkver file of the package, templateCommit and
\* templateVersion; 'No existing versions found' and False without them
FindConfig ==
  /\ pc = "template"
  /\ run.stage = "config"
  /\ run' = IF run.pinned THEN [run EXCEPT !.stage = "fetch"]
            ELSE [run EXCEPT !.stage = "returned", !.result = "False"]
  /\ Frame

\* with tempfile.TemporaryDirectory(): the .yaml files of the pinned commit
\* are written under <temporary directory>/<templateVersion>; a failed
\* request returns False, and the directory is removed on the way out
FetchTemplate ==
  /\ pc = "template"
  /\ run.stage = "fetch"
  /\ \E ok \in BOOLEAN : \E got \in SUBSET TemplateFiles :
       run' = IF ok
              THEN [run EXCEPT !.stage = "process", !.temp_dirs = 1,
                               !.template = TemplateVersion, !.template_in = "temp",
                               !.writes = @ \cup {[root |-> "temp", dir |-> TemplateVersion,
                                                   file |-> f] : f \in got}]
              ELSE [run EXCEPT !.stage = "returned", !.result = "False"]
  /\ Frame

\* the files of the directory the template is read from
FilesOf(r) ==
  IF r.template_in = "repo" THEN TemplateFiles
  ELSE {w.file : w \in {x \in r.writes : x.root = "temp"}}

\* return process_template_and_create_version(...): the files of the template
\* are written, patched, into the directory of the new version, all of them
\* or, when an exception ends the loop, some; the temporary directory is gone
\* after the return
ProcessTemplateDir ==
  /\ pc = "template"
  /\ run.stage = "process"
  /\ \E done \in SUBSET FilesOf(run) :
       run' = [run EXCEPT !.stage = "returned", !.temp_dirs = 0,
                          !.result = IF done = FilesOf(run) THEN "True" ELSE "False",
                          !.writes = @ \cup {[root |-> "repo", dir |-> RunVersion, file |-> f] :
                                             f \in done}]
  /\ Frame

NextTemplate == ListVersions \/ FindConfig \/ FetchTemplate \/ ProcessTemplateDir

SpecTemplate == InitTemplate /\ [][NextTemplate]_vars

\* ------------------------------------------------------------------ claims: the template

\* the k-th part of a directory name as a number: 0 for a part that is
\* missing or is not a number
Component(v, k) ==
  IF k > Len(PartsOf(v)) THEN 0
  ELSE LET x == PartsOf(v)[k]
       IN  IF x # <<>> /\ \A i \in 1..Len(x) : x[i] \in Digits THEN IntOf(x) ELSE 0

\* a is greater than b, part by part
NumericallyGreater(a, b) ==
  \E k \in 1..Len(a) :
    /\ Component(a, k) > Component(b, k)
    /\ \A j \in 1..(k - 1) : Component(a, j) = Component(b, j)

\* C21: with directories under the manifest path the template is one of
\* them, read in place, and none of them is numerically greater, part by
\* part; without any, the template is the pinned templateVersion in a
\* temporary directory; and the only directory of the repository the run
\* writes to is that of the new version
C21_TemplateSelection ==
  pc = "template" =>
    /\ (run.dirs # <<>> /\ run.stage \in {"process", "returned"}) =>
         /\ run.template_in = "repo"
         /\ \E i \in 1..Len(run.dirs) : run.dirs[i] = run.template
         /\ \A i \in 1..Len(run.dirs) : ~NumericallyGreater(run.dirs[i], run.template)
    /\ (run.dirs = <<>> /\ run.template # <<>>) =>
         /\ run.pinned
         /\ run.template = TemplateVersion
         /\ run.template_in = "temp"
    /\ \A w \in run.writes :
         /\ w.root = "repo" => w.dir = RunVersion
         /\ w.dir = TemplateVersion => w.root = "temp"

\* C21: 1.10 is listed before 1.9 and is the template, and its files are
\* written to the directory of the new version
C21_Witness ==
  /\ pc = "template"
  /\ run.stage = "returned"
  /\ run.dirs = <<<<"1", ".", "1", "0">>, <<"1", ".", "9">>>>
  /\ run.template = <<"1", ".", "1", "0">>
  /\ run.result = "True"
  /\ \E w \in run.writes : w.root = "repo"

\* ------------------------------------------------------------------ process_template_and_create_version

MaxFiles == 2  \* entries of the template directory

\* an entry of the template directory: whether its name ends with .yaml,
\* and, of its patched content, whether yaml.safe_load takes it and whether
\* the scan of validate_yaml_content counts a field twice
TemplateEntries == [yaml : BOOLEAN, parses : BOOLEAN, dups : BOOLEAN]

InitProcess ==
  /\ run \in [stage : {"mkdir"},
              files : UNION {[1..n -> TemplateEntries] : n \in 0..MaxFiles},
              i : {1}, written : {{}}, validated : {{}}, warnings : {{}},
              raised : {FALSE}, result : {"none"}]
  /\ pc = "process"
  /\ content = <<>>
  /\ prev = <<>>
  /\ orig = <<>>
  /\ req = <<>>
  /\ ver = NoVer

\* except Exception: the error is printed and False returned
OnException(r) == [r EXCEPT !.stage = "returned", !.raised = TRUE, !.result = "False"]

\* os.makedirs(version_dir, exist_ok=True)
MakeVersionDir ==
  /\ pc = "process"
  /\ run.stage = "mkdir"
  /\ \E ok \in BOOLEAN : run' = IF ok THEN [run EXCEPT !.stage = "next"] ELSE OnException(run)
  /\ Frame

\* for filename in os.listdir(latest_dir): a name without .yaml is passed
\* over; the file is read and its content patched
ReadAndPatch ==
  /\ pc = "process"
  /\ run.stage = "next"
  /\ run.i <= Len(run.files)
  /\ \E ok \in BOOLEAN :
       run' = IF ~run.files[run.i].yaml THEN [run EXCEPT !.i = @ + 1]
              ELSE IF ok THEN [run EXCEPT !.stage = "write"]
              ELSE OnException(run)
  /\ Frame

\* with open(dst_file, 'w') as f: f.write(updated_content)
WriteFile ==
  /\ pc = "process"
  /\ run.stage = "write"
  /\ run' = [run EXCEPT !.stage = "validate", !.written = @ \cup {run.i}]
  /\ Frame

\* validate_yaml_content: False for content that yaml.safe_load rejects; a
\* field counted twice is printed, and the content is valid
ValidateYamlContent(f) ==
  IF f.parses
  THEN [valid |-> TRUE, printed |-> IF f.dups THEN {"appears more than once"} ELSE {}]
  ELSE [valid |-> FALSE, printed |-> {"YAML validation error"}]

\* the content is not valid, and the run stops with False
AbortOnInvalid(r) == [r EXCEPT !.stage = "returned", !.result = "False"]

\* if not validate_yaml_content(...): print a warning
OnInvalid(r) == [r EXCEPT !.warnings = @ \cup {<<r.i, "may have validation issues">>}]

\* the file just written is validated, and the loop goes on
Validate ==
  /\ pc = "process"
  /\ run.stage = "validate"
  /\ LET v == ValidateYamlContent(run.files[run.i])
         seen == [run EXCEPT !.validated = @ \cup {run.i},
                             !.warnings = @ \cup {<<run.i, p>> : p \in v.printed}]
         after == IF v.valid THEN seen ELSE OnInvalid(seen)
     IN  run' = IF after.stage = "returned" THEN after
                ELSE [after EXCEPT !.stage = "next", !.i = @ + 1]
  /\ Frame

\* return True after the loop
ReturnTrue ==
  /\ pc = "process"
  /\ run.stage = "next"
  /\ run.i > Len(run.files)
  /\ run' = [run EXCEPT !.stage = "returned", !.result = "True"]
  /\ Frame

NextProcess == MakeVersionDir \/ ReadAndPatch \/ WriteFile \/ Validate \/ ReturnTrue

SpecProcess == InitProcess /\ [][NextProcess]_vars

\* ------------------------------------------------------------------ claims: validation after the patch

\* the .yaml entries of the template directory
YamlFiles(r) == {k \in 1..Len(r.files) : r.files[k].yaml}

\* the entries whose patched content does not parse or repeats a field
Flawed(r) == {k \in YamlFiles(r) : ~r.files[k].parses \/ r.files[k].dups}

\* C22: a file is written before it is validated; a file that does not
\* parse, or repeats a field, is warned about and stays written; False is
\* returned only after an exception, and a run without one writes every
\* .yaml file and returns True
C22_ValidationAdvisory ==
  pc = "process" =>
    /\ run.validated \subseteq run.written
    /\ run.stage = "validate" => run.i \in run.written
    /\ \A k \in run.validated \cap Flawed(run) : \E w \in run.warnings : w[1] = k
    /\ (run.stage = "returned" /\ run.result = "False") => run.raised
    /\ (run.stage = "returned" /\ ~run.raised) =>
         /\ run.result = "True"
         /\ run.written = YamlFiles(run)
         /\ run.validated = YamlFiles(run)

\* C22: the first file does not parse, a later one repeats a field, both are
\* written and the function has returned True
C22_Witness ==
  /\ pc = "process"
  /\ run.stage = "returned"
  /\ run.result = "True"
  /\ \E k, j \in run.written :
       /\ k < j
       /\ ~run.files[k].parses
       /\ run.files[j].parses /\ run.files[j].dups
       /\ \E w \in run.warnings : w[1] = k
       /\ \E w \in run.warnings : w[1] = j

====
